---- MODULE Spec2Model ----
(***************************************************************************)
(* Event relay (handleClientEvent) and session driver (runLetta) of        *)
(* letta-cowork.  The relay owns the registry of runner handles and the    *)
(* runtime sessions; every runLetta invocation is a detached background    *)
(* task that talks to the backend SDK and reports through onEvent and      *)
(* onSessionUpdate.  The repository carries two variants of runLetta       *)
(* (runner.ts:57-239 validates the resume id, runner.ts:281-426 and        *)
(* part_002 create the agent first); runnerModule selects which one the    *)
(* relay is linked against.                                                *)
(***************************************************************************)
EXTENDS Integers, Sequences, FiniteSets, TLC

\* ---------------------------------------------------------------- bounds
MaxRunners == 2      \* runLetta invocations (start + continue commands)
MaxTurns == 1        \* the same, in the specifications of single turns
MaxInFlight == 2     \* runLetta background tasks alive at the same time
MaxMsgs == 1         \* messages yielded by all backend streams together
MaxTools == 1        \* tool-authorization requests for AskUserQuestion
MaxCmds == 1         \* stop / delete / permission.response commands

\* ------------------------------------------------------------ identifiers
NoId == ""
PendingId == "pending"
StartTitle == "task"
Prompts == {"hello"}

\* Spelling of every identifier the model uses, for the id-shape test.
Chars ==
  [ id \in {"conv-0", "conv-1", "conv-2", "conv-3", "conv-4", "conv-123",
            "agent-0", "agent-1", "agent-2", "agent-3", "agent-4",
            "junk", "pending", "conversation-7",
            "0a1b2c3d-0000-4000-8000-00000000000f",
            "0a1b2c3d-0000-4000-8000-00000000000"} |->
      CASE id = "conv-0" -> <<"c","o","n","v","-","0">>
        [] id = "conv-1" -> <<"c","o","n","v","-","1">>
        [] id = "conv-2" -> <<"c","o","n","v","-","2">>
        [] id = "conv-3" -> <<"c","o","n","v","-","3">>
        [] id = "conv-4" -> <<"c","o","n","v","-","4">>
        [] id = "conv-123" -> <<"c","o","n","v","-","1","2","3">>
        [] id = "agent-0" -> <<"a","g","e","n","t","-","0">>
        [] id = "agent-1" -> <<"a","g","e","n","t","-","1">>
        [] id = "agent-2" -> <<"a","g","e","n","t","-","2">>
        [] id = "agent-3" -> <<"a","g","e","n","t","-","3">>
        [] id = "agent-4" -> <<"a","g","e","n","t","-","4">>
        [] id = "junk" -> <<"j","u","n","k">>
        [] id = "pending" -> <<"p","e","n","d","i","n","g">>
        [] id = "conversation-7" ->
             <<"c","o","n","v","e","r","s","a","t","i","o","n","-","7">>
        [] id = "0a1b2c3d-0000-4000-8000-00000000000f" ->
             <<"0","a","1","b","2","c","3","d","-","0","0","0","0","-",
               "4","0","0","0","-","8","0","0","0","-",
               "0","0","0","0","0","0","0","0","0","0","0","f">>
        [] id = "0a1b2c3d-0000-4000-8000-00000000000" ->
             <<"0","a","1","b","2","c","3","d","-","0","0","0","0","-",
               "4","0","0","0","-","8","0","0","0","-",
               "0","0","0","0","0","0","0","0","0","0","0">> ]

HexDigits == {"0","1","2","3","4","5","6","7","8","9","a","b","c","d","e","f"}

HasPrefix(s, p) ==
  /\ Len(s) >= Len(p)
  /\ \A i \in 1..Len(p) : s[i] = p[i]

\* [0-9a-f]{8}-[0-9a-f]{4}-[0-9a-f]{4}-[0-9a-f]{4}-[0-9a-f]{12} at the start
UuidDashes == {9, 14, 19, 24}
UuidLen == 36
HasUuidPrefix(s) ==
  /\ Len(s) >= UuidLen
  /\ \A i \in 1..UuidLen :
       IF i \in UuidDashes THEN s[i] = "-" ELSE s[i] \in HexDigits

isValidLettaId(id) ==
  IF id = NoId THEN FALSE
  ELSE \/ HasPrefix(Chars[id], <<"a","g","e","n","t","-">>)
       \/ HasPrefix(Chars[id], <<"c","o","n","v","-">>)
       \/ HasPrefix(Chars[id], <<"c","o","n","v","e","r","s","a","t","i","o","n","-">>)
       \/ HasUuidPrefix(Chars[id])

\* Identifiers the backend hands out, in order of creation.
ConvName == <<"conv-1", "conv-2", "conv-3", "conv-4">>
AgentName == <<"agent-1", "agent-2", "agent-3", "agent-4">>
ToolUseIds == <<"tu-1", "tu-2", "tu-3", "tu-4">>

\* Identifiers of earlier conversations the UI may still name in a command:
\* known to the backend, well-shaped but unknown, ill-shaped, an agent's id.
ContinueInputs == {"conv-0", "conv-123", "junk", "agent-0"}

\* ------------------------------------------------------------- map helpers
EmptyMap == [x \in {} |-> 0]
MapSet(f, k, v) == [x \in (DOMAIN f) \cup {k} |-> IF x = k THEN v ELSE f[x]]
MapKeep(f, k) == f
MapDel(f, k) == [x \in (DOMAIN f) \ {k} |-> f[x]]


\* ------------------------------------------------------------------ state
VARIABLES
  runnerModule,        \* which runLetta variant the relay is linked against
  staleId,             \* the earlier conversation id the UI still holds
  runners,             \* one record per runLetta invocation (background task)
  nRunners,            \* number of runLetta invocations so far
  activeLettaSession,  \* module global of runner.ts: 0 = null, r = session of r
  cachedAgentId,       \* module global of runner.ts: NoId = null
  runnerHandles,       \* registry: conversation id -> runner whose handle it is
  sessions,            \* runtime-state: conversation id -> runtime session
  permMaps,            \* the pendingPermissions Map objects, by reference
  sent,                \* the events the last step broadcast, in order
  backendConvs,        \* backend: conversation id -> agent that owns it
  nAgents,             \* agents created in this process lifetime
  nTools,              \* toolUseIds drawn so far
  nMsgs,               \* messages yielded by backend streams so far
  nCmds,               \* stop / delete / permission.response commands so far
  maxRunners,          \* how many runLetta invocations this run observes
  observe,             \* whether this run keeps the history of each invocation
  history,             \* per invocation: events it broadcast, messages yielded
  last                 \* what the last step was: command or runner step

VARIABLES
  store,      \* the zustand store of the UI (useAppStore)
  view,       \* state, refs and scroll container of the App component
  fragments,  \* per conversation and message id: the fragments delivered
  nEvents,    \* server events delivered to the UI so far
  nActs,      \* selections, starts and permission decisions made so far
  uiLast      \* what the last UI step was: the event delivered or the handler

VARIABLES
  host        \* main.ts: cleanupComplete, the quit hooks fired, what cleanup did

uiVars == <<store, view, fragments, nEvents, nActs, uiLast>>

vars == <<runnerModule, staleId, runners, nRunners, activeLettaSession,
          cachedAgentId, runnerHandles, sessions, permMaps, sent, backendConvs,
          nAgents, nTools, nMsgs, nCmds, maxRunners, observe, history, last,
          store, view, fragments, nEvents, nActs, uiLast, host>>

NoMsg == [type |-> "", success |-> FALSE]
StreamMessages == {[type |-> "assistant", success |-> FALSE],
                   [type |-> "result", success |-> TRUE],
                   [type |-> "result", success |-> FALSE]}

\* ServerEvent; by = the runLetta invocation whose handler or background
\* task produced it (0 = the relay while handling stop/delete).
Event(type, sessionId, by) ==
  [type |-> type, sessionId |-> sessionId, status |-> "", title |-> "",
   prompt |-> "", message |-> NoMsg, toolUseId |-> "", toolName |-> "",
   error |-> "", by |-> by]

StatusEvent(sessionId, status, title, error, by) ==
  [Event("session.status", sessionId, by) EXCEPT
     !.status = status, !.title = title, !.error = error]

\* op: the handler or runner step; r: the runLetta invocation concerned;
\* handle: the runner whose handle stop/delete found (0 = none);
\* aborted: the runner whose backend session that handle's abort() aborted;
\* resolved: permission.response found a pending permission;
\* message: the message a stream step took from the backend
NoStep == [op |-> "", r |-> 0, sessionId |-> NoId, toolUseId |-> "",
           handle |-> 0, aborted |-> 0, resolved |-> FALSE, message |-> NoMsg]
Step(op, r) == [NoStep EXCEPT !.op = op, !.r = r]
Cmd(op, sessionId) == [NoStep EXCEPT !.op = op, !.sessionId = sessionId]

NoAcq == [fn |-> "", arg |-> NoId]

UnusedRunner ==
  [kind |-> "", pc |-> "unused",
   session |-> [id |-> NoId, title |-> "", status |-> "",
                pendingPermissions |-> 0],
   resumeConversationId |-> NoId, prompt |-> "",
   currentSessionId |-> NoId, relayId |-> NoId, handle |-> FALSE,
   acq |-> NoAcq, conversationId |-> NoId, agentId |-> NoId,
   aborted |-> FALSE, waitTool |-> "", waitSession |-> NoId,
   sawResult |-> FALSE, rejected |-> FALSE]

DoneRunner == [UnusedRunner EXCEPT !.pc = "done"]

\* The closure of a background task that finished before the last step is
\* garbage: nothing can read it any more.
Live == [r \in DOMAIN runners |->
           IF runners[r].pc = "done" /\ last.r # r THEN DoneRunner ELSE runners[r]]

Agents == {"agent-0"} \cup {AgentName[i] : i \in 1..nAgents}
NextConv == ConvName[Cardinality(DOMAIN backendConvs)]
InFlight(r) == runners[r].pc \in {"creatingAgent", "sending", "streaming", "waitPerm"}
MayLaunch ==
  /\ nRunners < maxRunners
  /\ Cardinality({r \in 1..nRunners : InFlight(r)}) < MaxInFlight

\* ---------------------------------------------------------- runtime-state
\* (libs/runtime-state.ts is not among the sources; modelled from its uses)
RelayState == [sessions |-> sessions, permMaps |-> permMaps, events |-> <<>>]

getSession(rs, id) == id \in DOMAIN rs.sessions

createRuntimeSession(rs, id) ==
  [rs EXCEPT !.permMaps = Append(@, {}),
             !.sessions = MapSet(@, id, [status |-> "idle",
                                         pendingPermissions |-> Len(rs.permMaps) + 1])]

updateSession(rs, id, status) ==
  IF id \in DOMAIN rs.sessions
  THEN [rs EXCEPT !.sessions[id].status = status]
  ELSE rs

deleteSession(rs, id) == [rs EXCEPT !.sessions = MapDel(@, id)]

\* ------------------------------------------------------------------ relay
\* A broadcast that reaches no window.
broadcastDropped(rs, e) == rs

broadcast(rs, e) == [rs EXCEPT !.events = Append(@, e)]

emit(rs, e) ==
  broadcast(IF e.type = "session.status"
            THEN updateSession(rs, e.sessionId, e.status)
            ELSE rs, e)

\* onEvent closure of session.start: conversationId is relayId
onEventStart(run, e) ==
  IF run.relayId # NoId THEN [e EXCEPT !.sessionId = run.relayId] ELSE e

\* An onEvent closure that forwards the runner's events as they come.
onEventForward(run, e) == e

\* onEvent closure of session.continue: actualConversationId is relayId,
\* conversationId is session.id
onEventContinue(run, e) ==
  IF run.relayId # run.session.id THEN [e EXCEPT !.sessionId = run.relayId] ELSE e

onEvent(rs, run, e) ==
  emit(rs, IF run.kind = "start" THEN onEventStart(run, e) ELSE onEventContinue(run, e))

\* An onSessionUpdate closure of session.start that echoes the prompt before
\* it announces the conversation.
onSessionUpdateStartPromptFirst(st, r, lettaConversationId) ==
  IF lettaConversationId # NoId /\ st.run.relayId = NoId
  THEN LET conversationId == lettaConversationId
           rs1 == createRuntimeSession(st.rs, conversationId)
           rs2 == updateSession(rs1, conversationId, "running")
           rs3 == emit(rs2, [Event("stream.user_prompt", conversationId, r)
                               EXCEPT !.prompt = st.run.prompt])
           rs4 == emit(rs3, StatusEvent(conversationId, "running", conversationId, "", r))
       IN [rs |-> rs4,
           handles |-> IF st.run.handle
                       THEN MapSet(st.handles, conversationId, r)
                       ELSE st.handles,
           run |-> [st.run EXCEPT !.relayId = conversationId]]
  ELSE st

\* onSessionUpdate closure of session.start; st = [rs, handles, run]
onSessionUpdateStart(st, r, lettaConversationId) ==
  IF lettaConversationId # NoId /\ st.run.relayId = NoId
  THEN LET conversationId == lettaConversationId
           rs1 == createRuntimeSession(st.rs, conversationId)
           rs2 == updateSession(rs1, conversationId, "running")
           rs3 == emit(rs2, StatusEvent(conversationId, "running", conversationId, "", r))
           rs4 == emit(rs3, [Event("stream.user_prompt", conversationId, r)
                               EXCEPT !.prompt = st.run.prompt])
       IN [rs |-> rs4,
           handles |-> IF st.run.handle
                       THEN MapSet(st.handles, conversationId, r)
                       ELSE st.handles,
           run |-> [st.run EXCEPT !.relayId = conversationId]]
  ELSE st

\* An onSessionUpdate closure that announces the new conversation before it
\* retires the old one.
onSessionUpdateAnnounceFirst(st, r, lettaConversationId) ==
  IF lettaConversationId # NoId /\ lettaConversationId # st.run.session.id
  THEN LET conversationId == st.run.session.id
           actualConversationId == lettaConversationId
           rs1 == createRuntimeSession(st.rs, actualConversationId)
           rs2 == updateSession(rs1, actualConversationId, "running")
           rs3 == emit(rs2, StatusEvent(actualConversationId, "running",
                                        actualConversationId, "", r))
           rs4 == emit(rs3, [Event("stream.user_prompt", actualConversationId, r)
                               EXCEPT !.prompt = st.run.prompt])
           rs5 == deleteSession(rs4, conversationId)
           rs6 == emit(rs5, Event("session.deleted", conversationId, r))
       IN [rs |-> rs6, handles |-> st.handles,
           run |-> [st.run EXCEPT !.relayId = actualConversationId]]
  ELSE st

\* onSessionUpdate closure of session.continue
onSessionUpdateContinue(st, r, lettaConversationId) ==
  IF lettaConversationId # NoId /\ lettaConversationId # st.run.session.id
  THEN LET conversationId == st.run.session.id
           actualConversationId == lettaConversationId
           rs1 == deleteSession(st.rs, conversationId)
           rs2 == emit(rs1, Event("session.deleted", conversationId, r))
           rs3 == createRuntimeSession(rs2, actualConversationId)
           rs4 == updateSession(rs3, actualConversationId, "running")
           rs5 == emit(rs4, StatusEvent(actualConversationId, "running",
                                        actualConversationId, "", r))
           rs6 == emit(rs5, [Event("stream.user_prompt", actualConversationId, r)
                               EXCEPT !.prompt = st.run.prompt])
       IN [rs |-> rs6, handles |-> st.handles,
           run |-> [st.run EXCEPT !.relayId = actualConversationId]]
  ELSE st

onSessionUpdate(st, r, lettaConversationId) ==
  IF st.run.kind = "start"
  THEN onSessionUpdateStart(st, r, lettaConversationId)
  ELSE onSessionUpdateContinue(st, r, lettaConversationId)

\* ----------------------------------------------------------------- runner
\* session acquisition of runner.ts:127-152
AcquireValidating(resumeConversationId, cached) ==
  IF resumeConversationId # NoId /\ isValidLettaId(resumeConversationId)
  THEN [fn |-> "resumeSession", arg |-> resumeConversationId]
  ELSE IF resumeConversationId # NoId /\ ~isValidLettaId(resumeConversationId)
  THEN IF cached # NoId
       THEN [fn |-> "resumeSession", arg |-> cached]
       ELSE [fn |-> "createSession", arg |-> NoId]
  ELSE IF cached # NoId
  THEN [fn |-> "resumeSession", arg |-> cached]
  ELSE [fn |-> "createSession", arg |-> NoId]

\* session acquisition of part_002:95-105 (and runner.ts:335-364); the last
\* branch suspends on createAgent before it creates the session
AcquireCreateAgent(resumeConversationId, cached) ==
  IF resumeConversationId # NoId
  THEN [fn |-> "resumeSession", arg |-> resumeConversationId]
  ELSE IF cached # NoId
  THEN [fn |-> "createSession", arg |-> cached]
  ELSE [fn |-> "createAgent", arg |-> NoId]

Acquire(resumeConversationId, cached) ==
  IF runnerModule = "validating"
  THEN AcquireValidating(resumeConversationId, cached)
  ELSE AcquireCreateAgent(resumeConversationId, cached)

\* runLetta up to its first suspension point
runLetta(kind, session, resumeConversationId, prompt) ==
  LET acq == Acquire(resumeConversationId, cachedAgentId)
  IN [UnusedRunner EXCEPT
        !.kind = kind, !.session = session,
        !.resumeConversationId = resumeConversationId, !.prompt = prompt,
        !.currentSessionId = session.id,
        !.relayId = IF kind = "start" THEN NoId ELSE session.id,
        !.handle = TRUE,
        !.acq = acq,
        !.pc = IF acq.fn = "createAgent" THEN "creatingAgent" ELSE "sending"]

\* A sendMessage that forwards every message as an assistant message.
sendMessageRetyped(run, r, message) ==
  [Event("stream.message", run.currentSessionId, r)
     EXCEPT !.message = [message EXCEPT !.type = "assistant"]]

\* sendMessage of runner.ts:71-76
sendMessage(run, r, message) ==
  [Event("stream.message", run.currentSessionId, r) EXCEPT !.message = message]

\* the status event of the catch block
CatchEvent(run, r, err) ==
  IF runnerModule = "validating"
  THEN StatusEvent(run.currentSessionId, "error", run.currentSessionId, err, r)
  ELSE StatusEvent(run.session.id, "error", run.session.title, err, r)

\* An abort capability that requests nothing.
abortNothing(rn) == rn

\* handle.abort(): aborts whatever session the module global points at
abort(rn) ==
  IF activeLettaSession # 0
  THEN [rn EXCEPT ![activeLettaSession].aborted = TRUE]
  ELSE rn

\* A resolve wrapper that leaves its entry in the map.
resolveKeeping(maps, m, toolUseId) == maps

\* resolve wrapper stored in the pending permission (runner.ts:99-102)
resolvePending(maps, m, toolUseId) ==
  [maps EXCEPT ![m] = @ \ {toolUseId}]

\* A status derivation that reads the success flag the wrong way round.
ResultStatusInverted(message) == IF message.success THEN "error" ELSE "completed"

\* const status = message.success ? "completed" : "error"
ResultStatus(message) == IF message.success THEN "completed" ELSE "error"

\* What the windows and the backend saw of each invocation: the events
\* broadcast on its behalf, in order, and the messages its stream yielded.
NoHistory == [events |-> <<>>, yielded |-> <<>>]
IsBy(r, e) == e.by = r
Recorded ==
  history' =
    IF ~observe THEN history
    ELSE [q \in DOMAIN history |->
            LET h == IF runners[q].pc = "done" /\ last.r # q
                     THEN NoHistory ELSE history[q]
            IN [events |-> h.events \o SelectSeq(sent', LAMBDA e : IsBy(q, e)),
                yielded |-> IF last'.op = "stream" /\ last'.r = q
                            THEN Append(h.yielded, last'.message)
                            ELSE h.yielded]]

\* =================================================== UI process (App.tsx)
\* ----------------------------------------------------------------- bounds
MaxEvents == 3       \* server events delivered to the UI in one run
MaxActs == 1         \* selections, starts and permission decisions of the user
PageSize == 1        \* messages in one page of the message window
RowHeight == 300     \* rendered height of one message, in pixels
ClientHeight == 100  \* height of the scroll container, in pixels

SCROLL_THRESHOLD == 50
\* rootMargin of the IntersectionObserver on the top sentinel
RootMargin == 100

Min2(a, b) == IF a < b THEN a ELSE b
Max2(a, b) == IF a < b THEN b ELSE a

\* ---------------------------------------------------------------- messages
\* an optional string of an event payload that is absent
undefined == "undefined"
\* message.content: absent, or a text
NoContent == [defined |-> FALSE, text |-> <<>>]
Str(t) == [defined |-> TRUE, text |-> t]
\* content || ""
OrEmpty(c) == IF c.defined THEN c.text ELSE <<>>

UiMsg(type, uuid, id, content) ==
  [type |-> type, uuid |-> uuid, id |-> id, content |-> content,
   prompt |-> "", event |-> "", delta |-> NoContent]
NoUiMsg == UiMsg("", NoId, NoId, NoContent)
\* { type: "user_prompt", prompt }
UserPrompt(prompt) == [UiMsg("user_prompt", NoId, NoId, NoContent) EXCEPT !.prompt = prompt]
\* { type: "stream_event", event: { type, delta: { text } } }
StreamEvent(kind, text) ==
  [UiMsg("stream_event", NoId, NoId, NoContent) EXCEPT !.event = kind, !.delta = text]

StreamingTypes == {"reasoning", "assistant"}
Texts == {Str(<<"a">>), Str(<<"b">>)}
\* the messages the backend streams: fragments of assistant and reasoning
\* text, tool results and terminal results, with and without an identifier
UiMessages ==
  {UiMsg("assistant", "m1", NoId, c) : c \in Texts \cup {NoContent}}
  \cup {UiMsg("reasoning", NoId, "m1", c) : c \in Texts}
  \cup {UiMsg("assistant", NoId, "m2", Str(<<"a">>)),
        UiMsg("assistant", NoId, NoId, Str(<<"a">>)),
        UiMsg("tool_result", NoId, "m2", Str(<<"b">>)),
        UiMsg("result", "m1", NoId, NoContent),
        UiMsg("result", NoId, NoId, NoContent)}
PartialEvents ==
  {StreamEvent("content_block_start", NoContent),
   StreamEvent("content_block_delta", Str(<<"a">>)),
   StreamEvent("content_block_stop", NoContent)}

\* const msgId = message.uuid || message.id
msgId(message) == IF message.uuid # NoId THEN message.uuid ELSE message.id
\* messages.findIndex(m => m.uuid === msgId || m.id === msgId); 0 for -1
findIndex(messages, id) ==
  LET S == {i \in 1..Len(messages) : messages[i].uuid = id \/ messages[i].id = id}
  IN IF S = {} THEN 0 ELSE CHOOSE i \in S : \A j \in S : i <= j

\* ------------------------------------------------------------ server events
UiIds == {"conv-1", "conv-2"}
ServerEvent(type, sessionId) ==
  [type |-> type, sessionId |-> sessionId, status |-> "", title |-> undefined,
   cwd |-> undefined, message |-> NoUiMsg, prompt |-> "", toolUseId |-> "",
   toolName |-> "", sessions |-> <<>>, messages |-> <<>>, error |-> ""]
NoEvent == ServerEvent("", NoId)

TerminalStatuses == {"completed", "error"}
StatusEvents ==
  {[ServerEvent("session.status", id) EXCEPT !.status = s, !.title = tc[1], !.cwd = tc[2]] :
     id \in UiIds, s \in {"running"} \cup TerminalStatuses,
     tc \in {<<undefined, undefined>>, <<StartTitle, "/w">>}}
MessageEvents(ms) ==
  {[ServerEvent("stream.message", id) EXCEPT !.message = m] : id \in UiIds, m \in ms}
PromptEvents ==
  {[ServerEvent("stream.user_prompt", id) EXCEPT !.prompt = p] : id \in UiIds, p \in Prompts}
PermissionEvents ==
  {[ServerEvent("permission.request", id) EXCEPT !.toolUseId = ToolUseIds[1],
                                                  !.toolName = "AskUserQuestion"] : id \in UiIds}
DeletedEvents == {ServerEvent("session.deleted", id) : id \in UiIds}
\* part_001:52-57: the relay answers session.list with an empty list
ListEvent == [ServerEvent("session.list", NoId) EXCEPT !.sessions = <<>>]
\* part_001:59-69: the relay answers session.history with no messages
HistoryEvents(requested) ==
  {[ServerEvent("session.history", id) EXCEPT !.status = s, !.messages = <<>>] :
     id \in requested, s \in {"idle", "running"}}

\* ------------------------------------------------------------------- store
createSession(id) ==
  [id |-> id, title |-> "", status |-> "idle", cwd |-> undefined,
   messages |-> <<>>, permissionRequests |-> <<>>, hydrated |-> FALSE,
   createdAt |-> 0, updatedAt |-> 0]

\* create<AppState>(...): the initial store; order is the key order of the
\* sessions object
InitialStore ==
  [sessions |-> EmptyMap, order |-> <<>>, activeSessionId |-> NoId,
   prompt |-> "", pendingStart |-> FALSE, globalError |-> "",
   sessionsLoaded |-> FALSE, showStartModal |-> FALSE, historyRequested |-> {}]

\* state.sessions[id] ?? createSession(id)
Existing(state, id) ==
  IF id \in DOMAIN state.sessions THEN state.sessions[id] ELSE createSession(id)
\* A put that does not spread the other conversations: { [id]: session }
PutSessionAlone(state, id, session) ==
  [state EXCEPT !.sessions = MapSet(EmptyMap, id, session), !.order = <<id>>]

\* { ...state.sessions, [id]: session }
PutSession(state, id, session) ==
  [state EXCEPT !.sessions = MapSet(@, id, session),
                !.order = IF id \in DOMAIN state.sessions THEN @ ELSE Append(@, id)]

setActiveSessionId(state, id) == [state EXCEPT !.activeSessionId = id]
setPendingStart(state, pending) == [state EXCEPT !.pendingStart = pending]

resolvePermissionRequest(state, sessionId, toolUseId) ==
  IF sessionId \notin DOMAIN state.sessions THEN state
  ELSE LET Other(req) == req.toolUseId # toolUseId
       IN [state EXCEPT !.sessions[sessionId].permissionRequests = SelectSeq(@, Other)]

\* case "session.list"
sessionList(state, event) ==
  LET infos == event.sessions
      Time(info) == IF info.updatedAt # 0 THEN info.updatedAt ELSE info.createdAt
      ids == {infos[i].id : i \in 1..Len(infos)}
      Info(id) == infos[CHOOSE i \in 1..Len(infos) :
                          /\ infos[i].id = id
                          /\ \A j \in 1..Len(infos) : infos[j].id = id => j <= i]
      First(id) == CHOOSE i \in 1..Len(infos) :
                     /\ infos[i].id = id
                     /\ \A j \in 1..Len(infos) : infos[j].id = id => i <= j
      IsFirst(i) == First(infos[i].id) = i
      firsts == {i \in 1..Len(infos) : IsFirst(i)}
      nextSessions ==
        [id \in ids |-> [Existing(state, id) EXCEPT
                           !.status = Info(id).status, !.title = Info(id).title,
                           !.cwd = Info(id).cwd, !.createdAt = Info(id).createdAt,
                           !.updatedAt = Info(id).updatedAt]]
      nextOrder ==
        IF infos = <<>> THEN <<>> ELSE
        [k \in 1..Cardinality(firsts) |->
           infos[CHOOSE i \in firsts : Cardinality({j \in firsts : j < i}) = k - 1].id]
      hasSessions == Len(infos) > 0
      latest == CHOOSE i \in 1..Len(infos) :
                  \A j \in 1..Len(infos) :
                    Time(infos[j]) < Time(infos[i]) \/ (Time(infos[j]) = Time(infos[i]) /\ j <= i)
      stillExists == state.activeSessionId \in ids
      s1 == [state EXCEPT !.sessions = nextSessions, !.order = nextOrder,
                          !.sessionsLoaded = TRUE, !.showStartModal = ~hasSessions]
      s2 == IF ~hasSessions THEN setActiveSessionId(s1, NoId) ELSE s1
  IN IF state.activeSessionId = NoId /\ hasSessions
     THEN setActiveSessionId(s2, infos[latest].id)
     ELSE IF state.activeSessionId # NoId /\ ~stillExists
          THEN setActiveSessionId(s2, NoId)
          ELSE s2

\* case "session.history"
sessionHistory(state, event) ==
  LET existing == Existing(state, event.sessionId)
  IN PutSession(state, event.sessionId,
       [existing EXCEPT !.status = event.status,
                        !.messages = event.messages \o existing.messages,
                        !.hydrated = TRUE])

\* A status handler that also notes the status in the message log.
sessionStatusLogged(state, event, now) ==
  LET existing == Existing(state, event.sessionId)
  IN PutSession(state, event.sessionId,
       [existing EXCEPT !.status = event.status,
                        !.messages = Append(@, UserPrompt(event.status)),
                        !.updatedAt = now])

\* case "session.status"; now is Date.now()
sessionStatus(state, event, now) ==
  LET existing == Existing(state, event.sessionId)
      s1 == PutSession(state, event.sessionId,
              [existing EXCEPT
                 !.status = event.status,
                 !.title = IF event.title = undefined THEN @ ELSE event.title,
                 !.cwd = IF event.cwd = undefined THEN @ ELSE event.cwd,
                 !.updatedAt = now])
  IN IF state.pendingStart
     THEN [setActiveSessionId(s1, event.sessionId) EXCEPT
             !.pendingStart = FALSE, !.showStartModal = FALSE, !.prompt = ""]
     ELSE s1

\* A delete that activates the first remaining conversation in key order.
sessionDeletedFirst(state, event) ==
  LET sessionId == event.sessionId
      nextSessions == MapDel(state.sessions, sessionId)
      Remaining(id) == id # sessionId
      nextOrder == SelectSeq(state.order, Remaining)
      hasRemaining == DOMAIN nextSessions # {}
      s1 == [state EXCEPT !.sessions = nextSessions, !.order = nextOrder,
                          !.historyRequested = @ \ {sessionId},
                          !.showStartModal = ~hasRemaining]
  IN IF state.activeSessionId = sessionId
     THEN setActiveSessionId(s1, IF hasRemaining THEN nextOrder[1] ELSE NoId)
     ELSE s1

\* case "session.deleted"
sessionDeleted(state, event) ==
  LET sessionId == event.sessionId
      nextSessions == MapDel(state.sessions, sessionId)
      Remaining(id) == id # sessionId
      nextOrder == SelectSeq(state.order, Remaining)
      hasRemaining == DOMAIN nextSessions # {}
      \* remaining.sort((a, b) => b.updatedAt - a.updatedAt)[0]: stable
      first == CHOOSE i \in 1..Len(nextOrder) :
                 \A j \in 1..Len(nextOrder) :
                   LET ti == nextSessions[nextOrder[i]].updatedAt
                       tj == nextSessions[nextOrder[j]].updatedAt
                   IN tj < ti \/ (tj = ti /\ i <= j)
      s1 == [state EXCEPT !.sessions = nextSessions, !.order = nextOrder,
                          !.historyRequested = @ \ {sessionId},
                          !.showStartModal = ~hasRemaining]
  IN IF state.activeSessionId = sessionId
     THEN setActiveSessionId(s1, IF hasRemaining THEN nextOrder[first] ELSE NoId)
     ELSE s1

\* A merge that puts the newest fragment in front of the accumulated text.
mergeNewestFirst(messages, message) ==
  LET idx == findIndex(messages, msgId(message))
  IN IF msgId(message) # NoId /\ idx > 0
     THEN [messages EXCEPT ![idx] =
             [message EXCEPT !.content =
                Str(OrEmpty(message.content) \o OrEmpty(messages[idx].content))]]
     ELSE Append(messages, message)

\* A merge that never replaces: every message becomes a new entry.
mergeAppendOnly(messages, message) == Append(messages, message)

\* A merge that puts a message without a matching entry in front of the log.
mergePrepending(messages, message) ==
  LET idx == findIndex(messages, msgId(message))
  IN IF msgId(message) # NoId /\ idx > 0
     THEN [messages EXCEPT ![idx] = message]
     ELSE <<message>> \o messages

\* A merge that matches on the uuid field only.
mergeUuidOnly(messages, message) ==
  LET S == {i \in 1..Len(messages) : messages[i].uuid = message.uuid}
  IN IF message.uuid # NoId /\ S # {}
     THEN [messages EXCEPT ![CHOOSE i \in S : \A j \in S : i <= j] = message]
     ELSE Append(messages, message)

\* case "stream.message": the merge of one message into the log
mergeMessage(messages, message) ==
  LET id == msgId(message)
      existingIdx == findIndex(messages, id)
  IN IF id # NoId
     THEN IF existingIdx > 0
          THEN IF message.type \in StreamingTypes
               THEN [messages EXCEPT ![existingIdx] =
                       [message EXCEPT !.content =
                          Str(OrEmpty(messages[existingIdx].content)
                              \o OrEmpty(message.content))]]
               ELSE [messages EXCEPT ![existingIdx] = message]
          ELSE Append(messages, message)
     ELSE Append(messages, message)

\* case "stream.message"
streamMessage(state, event) ==
  LET existing == Existing(state, event.sessionId)
  IN PutSession(state, event.sessionId,
       [existing EXCEPT !.messages = mergeMessage(@, event.message)])

\* case "stream.user_prompt"
streamUserPrompt(state, event) ==
  LET existing == Existing(state, event.sessionId)
  IN PutSession(state, event.sessionId,
       [existing EXCEPT !.messages = Append(@, UserPrompt(event.prompt))])

\* case "permission.request"
permissionRequest(state, event) ==
  LET existing == Existing(state, event.sessionId)
  IN PutSession(state, event.sessionId,
       [existing EXCEPT !.permissionRequests =
          Append(@, [toolUseId |-> event.toolUseId, toolName |-> event.toolName])])

\* case "runner.error"
runnerError(state, event) == [state EXCEPT !.globalError = event.error]

handleServerEvent(state, event, now) ==
  CASE event.type = "session.list" -> sessionList(state, event)
    [] event.type = "session.history" -> sessionHistory(state, event)
    [] event.type = "session.status" -> sessionStatus(state, event, now)
    [] event.type = "session.deleted" -> sessionDeleted(state, event)
    [] event.type = "stream.message" -> streamMessage(state, event)
    [] event.type = "stream.user_prompt" -> streamUserPrompt(state, event)
    [] event.type = "permission.request" -> permissionRequest(state, event)
    [] event.type = "runner.error" -> runnerError(state, event)
    [] OTHER -> state

\* -------------------------------------------------------- the App component
InitialView ==
  [partialMessage |-> <<>>, showPartialMessage |-> FALSE, clearPending |-> FALSE,
   shouldAutoScroll |-> TRUE, hasNewMessages |-> FALSE,
   prevMessagesLength |-> 0, scrollHeightBeforeLoad |-> 0,
   shouldRestoreScroll |-> FALSE, scrollTop |-> 0, scrollPending |-> FALSE,
   pages |-> 1, isLoadingHistory |-> FALSE]

\* const activeSession = activeSessionId ? sessions[activeSessionId] : undefined
hasActiveSession(state) ==
  state.activeSessionId # NoId /\ state.activeSessionId \in DOMAIN state.sessions
\* const messages = activeSession?.messages ?? []
messagesOf(state) ==
  IF hasActiveSession(state) THEN state.sessions[state.activeSessionId].messages ELSE <<>>

\* useMessageWindow: the view holds a suffix window of the log, a whole
\* number of pages long
visibleMessages(state, v) ==
  LET ms == messagesOf(state)
      n == Min2(Len(ms), v.pages * PageSize)
  IN SubSeq(ms, Len(ms) - n + 1, Len(ms))
hasMoreHistory(state, v) == Len(messagesOf(state)) > v.pages * PageSize
\* loadMoreMessages(): the next older page is being fetched
loadMoreMessages(v) == [v EXCEPT !.isLoadingHistory = TRUE]
\* the page has arrived: the window is one page longer
pageLoaded(v) == [v EXCEPT !.pages = @ + 1, !.isLoadingHistory = FALSE]
\* resetToLatest(): back to the newest page
resetToLatest(v) == [v EXCEPT !.pages = 1]

\* Layout of the scroll container: one row per visible message and one for
\* the partial message; the placeholder of an empty log fits the container
\* (main.ts:92-96 keeps the window at least 600 pixels high).
scrollHeight(state, v) ==
  Max2(ClientHeight,
       RowHeight * (Len(visibleMessages(state, v))
                    + IF v.partialMessage # <<>> THEN 1 ELSE 0))
maxScrollTop(state, v) == scrollHeight(state, v) - ClientHeight
\* the browser keeps scrollTop within the scrollable range
Clamp(state, v, top) == Max2(0, Min2(top, maxScrollTop(state, v)))
\* the top sentinel is within rootMargin of the viewport
isIntersecting(v) == v.scrollTop <= RootMargin

\* scrollTop is moved by the program or by layout: the browser dispatches a
\* scroll event, which onScroll handles later
scrollTo(v, top) ==
  [v EXCEPT !.scrollTop = top, !.scrollPending = @ \/ top # v.scrollTop]

\* A bottom test that ignores the threshold.
isAtBottomExact(state, v) == v.scrollTop + ClientHeight >= scrollHeight(state, v)

\* scrollTop + clientHeight >= scrollHeight - SCROLL_THRESHOLD
isAtBottom(state, v) ==
  v.scrollTop + ClientHeight >= scrollHeight(state, v) - SCROLL_THRESHOLD

handleScroll(state, v) ==
  IF isAtBottom(state, v) # v.shouldAutoScroll
  THEN [v EXCEPT !.shouldAutoScroll = isAtBottom(state, v),
                 !.hasNewMessages = IF isAtBottom(state, v) THEN FALSE ELSE @]
  ELSE v

\* messagesEndRef.current?.scrollIntoView(): the end of the content is shown
scrollIntoView(state, v) == scrollTo(v, maxScrollTop(state, v))

\* handlePartialMessages, with the shouldAutoScroll of the render it closes over
handlePartialMessages(state, v, event) ==
  IF event.type # "stream.message" \/ event.message.type # "stream_event"
  THEN v
  ELSE CASE event.message.event = "content_block_start" ->
              [v EXCEPT !.partialMessage = <<>>, !.showPartialMessage = TRUE]
         [] event.message.event = "content_block_delta" ->
              LET v1 == [v EXCEPT !.partialMessage = @ \o OrEmpty(event.message.delta)]
              IN IF v.shouldAutoScroll
                 THEN scrollTo(v1, maxScrollTop(state, v))
                 ELSE [v1 EXCEPT !.hasNewMessages = TRUE]
         [] event.message.event = "content_block_stop" ->
              [v EXCEPT !.showPartialMessage = FALSE, !.clearPending = TRUE]
         [] OTHER -> v

\* effect of App.tsx:105-112: history is requested once per conversation
requestHistory(state) ==
  IF /\ hasActiveSession(state)
     /\ ~state.sessions[state.activeSessionId].hydrated
     /\ state.activeSessionId \notin state.historyRequested
  THEN [state EXCEPT !.historyRequested = @ \cup {state.activeSessionId}]
  ELSE state

\* effect of App.tsx:159-169
restoreScroll(state, v) ==
  IF v.shouldRestoreScroll /\ ~v.isLoadingHistory
  THEN [scrollTo(v, Clamp(state, v, v.scrollTop + (scrollHeight(state, v)
                                                     - v.scrollHeightBeforeLoad)))
          EXCEPT !.shouldRestoreScroll = FALSE]
  ELSE v

\* effect of App.tsx:172-179
resetScrollState(state, v) ==
  [scrollIntoView(state, v) EXCEPT !.shouldAutoScroll = TRUE,
                                   !.hasNewMessages = FALSE,
                                   !.prevMessagesLength = 0]

\* effect of App.tsx:181-188; auto is the shouldAutoScroll of the render
autoScrollEffect(state, v, auto) ==
  LET n == Len(messagesOf(state))
      v1 == IF auto THEN scrollIntoView(state, v)
            ELSE IF n > v.prevMessagesLength /\ v.prevMessagesLength > 0
                 THEN [v EXCEPT !.hasNewMessages = TRUE]
                 ELSE v
  IN [v1 EXCEPT !.prevMessagesLength = n]

\* the callback of the IntersectionObserver, entry.isIntersecting being true
onIntersect(state, v) ==
  IF hasMoreHistory(state, v) /\ ~v.isLoadingHistory
  THEN loadMoreMessages([v EXCEPT !.scrollHeightBeforeLoad = scrollHeight(state, v),
                                  !.shouldRestoreScroll = TRUE])
  ELSE v

\* The render that follows a handler and the effects it runs.  s0 and v0 are
\* what the previous render showed, s1 and v1 the store and the component
\* state the handler left; touched says that the handler rebuilt the message
\* array of the active conversation.
Render(s0, v0, s1, v1, touched) ==
  LET switched == s1.activeSessionId # s0.activeSessionId
      \* useMessageWindow starts again on the newest page of a conversation
      va == IF switched THEN [v1 EXCEPT !.pages = 1, !.isLoadingHistory = FALSE] ELSE v1
      \* layout: the browser moves a scrollTop that lies beyond the content
      vb == scrollTo(va, Clamp(s1, va, va.scrollTop))
      msgsChanged == \/ touched \/ switched \/ ~hasActiveSession(s1)
                     \/ messagesOf(s1) # messagesOf(s0)
      visChanged == msgsChanged \/ visibleMessages(s1, vb) # visibleMessages(s0, v0)
      vr == IF visChanged \/ vb.isLoadingHistory # v0.isLoadingHistory
            THEN restoreScroll(s1, vb) ELSE vb
      vd == IF switched THEN resetScrollState(s1, vr) ELSE vr
      ve == IF \/ msgsChanged
               \/ vb.partialMessage # v0.partialMessage
               \/ vb.shouldAutoScroll # v0.shouldAutoScroll
            THEN autoScrollEffect(s1, vd, vb.shouldAutoScroll) ELSE vd
  IN \* the render caused by the state the effects set
     IF ve.shouldAutoScroll # vb.shouldAutoScroll
     THEN autoScrollEffect(s1, ve, ve.shouldAutoScroll)
     ELSE ve

\* ----------------------------------------------------- delivered fragments
\* For each conversation and message id, what has been delivered under it:
\* the index at which the first fragment was appended, the fragments' text in
\* delivery order, and whether every message under the id was a fragment.
noteFragment(fr, log, sessionId, message) ==
  LET id == msgId(message)
      key == <<sessionId, id>>
  IN IF id = NoId THEN fr
     ELSE IF message.type \in StreamingTypes
          THEN IF key \in DOMAIN fr
               THEN MapSet(fr, key, [fr[key] EXCEPT !.text = @ \o OrEmpty(message.content)])
               ELSE MapSet(fr, key, [first |-> Len(log) + 1,
                                     text |-> OrEmpty(message.content),
                                     pure |-> findIndex(log, id) = 0])
          ELSE MapSet(fr, key, [first |-> 0, text |-> <<>>, pure |-> FALSE])

NoUiStep == [op |-> "", event |-> NoEvent, again |-> FALSE, found |-> 0, scrollTop |-> 0]
UiStep(op) == [NoUiStep EXCEPT !.op = op]

InitUI ==
  /\ store = InitialStore
  /\ view = InitialView
  /\ fragments = EmptyMap
  /\ nEvents = 0
  /\ nActs = 0
  /\ uiLast = NoUiStep

\* ------------------------------------------------------ host (main.ts)
MaxHooks == 2        \* quit hooks, the quit shortcut and signals that fire

\* let cleanupComplete = false; shortcut: CommandOrControl+Q is registered;
\* quitting: app.quit() was called; the other fields count how often each
\* cleanup action ran
InitialHost ==
  [cleanupComplete |-> FALSE, shortcut |-> TRUE, quitting |-> FALSE, nHooks |-> 0,
   unregisterAll |-> 0, stopPolling |-> 0, cleanupAllSessions |-> 0,
   killViteDevServer |-> 0]

\* cleanupAllSessions of part_001:273-278; st = [handles, runners]
cleanupAllSessions(st) ==
  [handles |-> EmptyMap,
   runners |-> IF DOMAIN st.handles # {} THEN abort(st.runners) ELSE st.runners]

\* A cleanup without the cleanupComplete guard.
cleanupUnguarded(h, st) ==
  [host |-> [h EXCEPT !.cleanupComplete = TRUE, !.shortcut = FALSE,
                      !.unregisterAll = @ + 1, !.stopPolling = @ + 1,
                      !.cleanupAllSessions = @ + 1, !.killViteDevServer = @ + 1],
   sessions |-> cleanupAllSessions(st)]

\* cleanup of main.ts:61-69
cleanup(h, st) ==
  IF h.cleanupComplete THEN [host |-> h, sessions |-> st]
  ELSE [host |-> [h EXCEPT !.cleanupComplete = TRUE, !.shortcut = FALSE,
                           !.unregisterAll = @ + 1, !.stopPolling = @ + 1,
                           !.cleanupAllSessions = @ + 1, !.killViteDevServer = @ + 1],
        sessions |-> cleanupAllSessions(st)]

\* before-quit and will-quit call cleanup; window-all-closed, the quit
\* shortcut and the signal handlers call cleanup and then app.quit()
QuitHooks == {"before-quit", "will-quit", "window-all-closed", "shortcut",
              "SIGTERM", "SIGINT", "SIGHUP"}
Quits(hook) == hook \notin {"before-quit", "will-quit"}

\* ------------------------------------------------------------------- Init
InitWith(n, o) ==
  /\ InitUI
  /\ host = InitialHost
  /\ maxRunners = n
  /\ observe = o
  /\ history = [r \in 1..n |-> NoHistory]
  /\ runnerModule \in {"validating", "createAgent"}
  /\ staleId \in ContinueInputs
  /\ runners = [r \in 1..n |-> UnusedRunner]
  /\ nRunners = 0
  /\ activeLettaSession = 0
  /\ cachedAgentId = NoId
  /\ runnerHandles = EmptyMap
  /\ sessions = EmptyMap
  /\ permMaps = <<>>
  /\ sent = <<>>
  /\ backendConvs = [c \in {"conv-0"} |-> "agent-0"]
  /\ nAgents = 0
  /\ nTools = 0
  /\ nMsgs = 0
  /\ nCmds = 0
  /\ last = NoStep

Init == InitWith(MaxRunners, FALSE)
InitTurn == InitWith(MaxTurns, FALSE)
InitTrace == InitWith(MaxTurns, TRUE)

SetRelayState(rs) ==
  /\ sessions' = rs.sessions
  /\ permMaps' = rs.permMaps
  /\ sent' = rs.events

\* Conversation ids the UI names in stop, delete and permission.response
CommandIds == (DOMAIN sessions) \cup (DOMAIN runnerHandles) \cup {staleId}

\* --------------------------------------------------------------- commands
\* handleClientEvent, event.type = "session.start"
Start(prompt) ==
  /\ MayLaunch
  /\ LET r == nRunners + 1
         pendingPermissions == Len(permMaps) + 1
         run == runLetta("start",
                         [id |-> PendingId, title |-> StartTitle,
                          status |-> "running",
                          pendingPermissions |-> pendingPermissions],
                         NoId, prompt)
     IN /\ runners' = [Live EXCEPT ![r] = run]
        /\ activeLettaSession' = IF run.pc = "sending" THEN r ELSE activeLettaSession
        /\ permMaps' = Append(permMaps, {})
        /\ nRunners' = r
        /\ last' = Step("session.start", r)
  /\ sent' = <<>>
  /\ Recorded
  /\ UNCHANGED <<host, uiVars, runnerModule, staleId, maxRunners, observe, cachedAgentId, runnerHandles, sessions,
                 backendConvs, nAgents, nTools, nMsgs, nCmds>>

\* handleClientEvent, event.type = "session.continue"
Continue(conversationId, prompt) ==
  /\ MayLaunch
  /\ LET r == nRunners + 1
         rs0 == RelayState
         rs1 == IF getSession(rs0, conversationId) THEN rs0
                ELSE createRuntimeSession(rs0, conversationId)
         rs2 == updateSession(rs1, conversationId, "running")
         rs3 == emit(rs2, StatusEvent(conversationId, "running", "", "", r))
         rs4 == emit(rs3, [Event("stream.user_prompt", conversationId, r)
                             EXCEPT !.prompt = prompt])
         run == runLetta("continue",
                         [id |-> conversationId, title |-> conversationId,
                          status |-> "running",
                          pendingPermissions |->
                            rs1.sessions[conversationId].pendingPermissions],
                         conversationId, prompt)
     IN /\ runners' = [Live EXCEPT ![r] = run]
        /\ activeLettaSession' = IF run.pc = "sending" THEN r ELSE activeLettaSession
        /\ SetRelayState(rs4)
        /\ runnerHandles' = MapSet(runnerHandles, run.relayId, r)
        /\ nRunners' = r
        /\ last' = [Step("session.continue", r) EXCEPT !.sessionId = conversationId]
  /\ Recorded
  /\ UNCHANGED <<host, uiVars, runnerModule, staleId, maxRunners, observe, cachedAgentId, backendConvs, nAgents,
                 nTools, nMsgs, nCmds>>

\* handleClientEvent, event.type = "session.stop"
Stop(conversationId) ==
  /\ nCmds < MaxCmds
  /\ LET handle == IF conversationId \in DOMAIN runnerHandles
                   THEN runnerHandles[conversationId] ELSE 0
         rs1 == updateSession(RelayState, conversationId, "idle")
         rs2 == emit(rs1, StatusEvent(conversationId, "idle", "", "", 0))
     IN /\ runners' = IF handle # 0 THEN abort(Live) ELSE Live
        /\ runnerHandles' = MapDel(runnerHandles, conversationId)
        /\ SetRelayState(rs2)
        /\ last' = [Cmd("session.stop", conversationId) EXCEPT
                      !.handle = handle,
                      !.aborted = IF handle # 0 THEN activeLettaSession ELSE 0]
  /\ nCmds' = nCmds + 1
  /\ Recorded
  /\ UNCHANGED <<host, uiVars, runnerModule, staleId, maxRunners, observe, nRunners, activeLettaSession, cachedAgentId,
                 backendConvs, nAgents, nTools, nMsgs>>

\* handleClientEvent, event.type = "session.delete"
Delete(conversationId) ==
  /\ nCmds < MaxCmds
  /\ LET handle == IF conversationId \in DOMAIN runnerHandles
                   THEN runnerHandles[conversationId] ELSE 0
         rs1 == deleteSession(RelayState, conversationId)
         rs2 == emit(rs1, Event("session.deleted", conversationId, 0))
     IN /\ runners' = IF handle # 0 THEN abort(Live) ELSE Live
        /\ runnerHandles' = MapDel(runnerHandles, conversationId)
        /\ SetRelayState(rs2)
        /\ last' = [Cmd("session.delete", conversationId) EXCEPT
                      !.handle = handle,
                      !.aborted = IF handle # 0 THEN activeLettaSession ELSE 0]
  /\ nCmds' = nCmds + 1
  /\ Recorded
  /\ UNCHANGED <<host, uiVars, runnerModule, staleId, maxRunners, observe, nRunners, activeLettaSession, cachedAgentId,
                 backendConvs, nAgents, nTools, nMsgs>>

\* handleClientEvent, event.type = "permission.response"
PermissionResponse(sessionId, toolUseId) ==
  /\ nCmds < MaxCmds
  /\ LET found == /\ sessionId \in DOMAIN sessions
                  /\ toolUseId \in permMaps[sessions[sessionId].pendingPermissions]
     IN /\ IF found
           THEN /\ permMaps' = resolvePending(permMaps,
                                 sessions[sessionId].pendingPermissions, toolUseId)
                /\ runners' = [r \in DOMAIN runners |->
                                 IF Live[r].pc = "waitPerm" /\ Live[r].waitTool = toolUseId
                                 THEN [Live[r] EXCEPT !.pc = "streaming",
                                                      !.waitTool = "",
                                                      !.waitSession = NoId]
                                 ELSE Live[r]]
           ELSE /\ permMaps' = permMaps
                /\ runners' = Live
        /\ last' = [Cmd("permission.response", sessionId) EXCEPT
                      !.toolUseId = toolUseId, !.resolved = found]
  /\ nCmds' = nCmds + 1
  /\ sent' = <<>>
  /\ Recorded
  /\ UNCHANGED <<host, uiVars, runnerModule, staleId, maxRunners, observe, nRunners, activeLettaSession, cachedAgentId,
                 runnerHandles, sessions, backendConvs, nAgents, nTools, nMsgs>>

\* ------------------------------------------------- background task of runLetta
ToolNames == {"AskUserQuestion", "Bash"}

\* cachedAgentId = await createAgent(); createSession(cachedAgentId, ...);
\* activeLettaSession = lettaSession; send(prompt) is called
CreateAgentDone(r) ==
  /\ runners[r].pc = "creatingAgent"
  /\ LET agent == AgentName[nAgents + 1]
     IN /\ cachedAgentId' = agent
        /\ runners' = [Live EXCEPT ![r].acq = [fn |-> "createSession", arg |-> agent],
                                   ![r].pc = "sending"]
  /\ nAgents' = nAgents + 1
  /\ activeLettaSession' = r
  /\ last' = Step("createAgent", r)
  /\ sent' = <<>>
  /\ Recorded
  /\ UNCHANGED <<host, uiVars, runnerModule, staleId, maxRunners, observe, nRunners, runnerHandles, sessions, permMaps,
                 backendConvs, nTools, nMsgs, nCmds>>

\* What the backend answers to send(): the conversation and its agent.
\* A resume of an identifier the backend does not know has no answer; the
\* call fails (Fail below).
BackendKnows(acq) ==
  \/ acq.fn = "createSession"
  \/ acq.fn = "resumeSession" /\ acq.arg \in Agents \cup DOMAIN backendConvs

BackendAnswer(acq) ==
  IF acq.fn = "resumeSession" /\ acq.arg \in DOMAIN backendConvs
  THEN [conversationId |-> acq.arg, agentId |-> backendConvs[acq.arg], newAgent |-> FALSE]
  ELSE IF acq.arg = NoId
  THEN [conversationId |-> NextConv, agentId |-> AgentName[nAgents + 1], newAgent |-> TRUE]
  ELSE [conversationId |-> NextConv, agentId |-> acq.arg, newAgent |-> FALSE]

\* await lettaSession.send(prompt) returns: runner.ts:166-179
SendOk(r, reportsConversation) ==
  /\ runners[r].pc = "sending"
  /\ BackendKnows(runners[r].acq)
  /\ LET ans == BackendAnswer(runners[r].acq)
         conversationId == IF reportsConversation THEN ans.conversationId ELSE NoId
         run1 == [runners[r] EXCEPT
                    !.conversationId = conversationId,
                    !.agentId = ans.agentId,
                    !.currentSessionId = IF conversationId # NoId THEN conversationId ELSE @,
                    !.pc = "streaming"]
         st == onSessionUpdate([rs |-> RelayState, handles |-> runnerHandles, run |-> run1],
                               r, conversationId)
     IN /\ runners' = [Live EXCEPT ![r] = st.run]
        /\ runnerHandles' = st.handles
        /\ SetRelayState(st.rs)
        /\ backendConvs' = MapSet(backendConvs, ans.conversationId, ans.agentId)
        /\ nAgents' = IF ans.newAgent THEN nAgents + 1 ELSE nAgents
        /\ cachedAgentId' = IF ans.agentId # NoId /\ cachedAgentId = NoId
                            THEN ans.agentId ELSE cachedAgentId
  /\ last' = Step("send", r)
  /\ Recorded
  /\ UNCHANGED <<host, uiVars, runnerModule, staleId, maxRunners, observe, nRunners, activeLettaSession, nTools, nMsgs,
                 nCmds>>

\* createAgent, send or the stream throws something other than AbortError:
\* catch block, then finally
Fail(r) ==
  /\ runners[r].pc \in {"creatingAgent", "sending", "streaming"}
  /\ LET rejected == runners[r].pc = "sending" /\ ~BackendKnows(runners[r].acq)
         err == IF rejected THEN "Error: invalid id" ELSE "Error: network"
         rs1 == onEvent(RelayState, runners[r], CatchEvent(runners[r], r, err))
     IN /\ SetRelayState(rs1)
        /\ runners' = [Live EXCEPT ![r].pc = "done", ![r].rejected = rejected]
  /\ activeLettaSession' = 0
  /\ last' = Step("catch", r)
  /\ Recorded
  /\ UNCHANGED <<host, uiVars, runnerModule, staleId, maxRunners, observe, nRunners, cachedAgentId, runnerHandles,
                 backendConvs, nAgents, nTools, nMsgs, nCmds>>

\* one iteration of for await (const message of lettaSession.stream())
StreamMsg(r, message) ==
  /\ runners[r].pc = "streaming"
  /\ nMsgs < MaxMsgs
  /\ LET run == runners[r]
         rs1 == onEvent(RelayState, run, sendMessage(run, r, message))
         status == ResultStatus(message)
         rs2 == IF message.type = "result"
                THEN onEvent(rs1, run, StatusEvent(run.currentSessionId, status,
                                                   run.currentSessionId, "", r))
                ELSE rs1
     IN SetRelayState(rs2)
  /\ runners' = [Live EXCEPT ![r].sawResult = @ \/ message.type = "result"]
  /\ nMsgs' = nMsgs + 1
  /\ last' = [Step("stream", r) EXCEPT !.message = message]
  /\ Recorded
  /\ UNCHANGED <<host, uiVars, runnerModule, staleId, maxRunners, observe, nRunners, activeLettaSession, cachedAgentId,
                 runnerHandles, backendConvs, nAgents, nTools, nCmds>>

\* the backend calls canUseTool(toolName, input) during the turn
CanUseTool(r, toolName) ==
  /\ runners[r].pc = "streaming"
  /\ IF toolName = "AskUserQuestion"
     THEN /\ nTools < MaxTools
          /\ LET run == runners[r]
                 toolUseId == ToolUseIds[nTools + 1]
                 rs1 == onEvent(RelayState, run,
                                [Event("permission.request", run.currentSessionId, r)
                                   EXCEPT !.toolUseId = toolUseId, !.toolName = toolName])
                 rs2 == [rs1 EXCEPT !.permMaps[run.session.pendingPermissions] =
                                       @ \cup {toolUseId}]
             IN /\ SetRelayState(rs2)
                /\ runners' = [Live EXCEPT ![r].pc = "waitPerm",
                                           ![r].waitTool = toolUseId,
                                           ![r].waitSession = rs1.events[1].sessionId]
          /\ nTools' = nTools + 1
     ELSE /\ runners' = Live
          /\ sent' = <<>>
          /\ UNCHANGED <<sessions, permMaps, nTools>>
  /\ last' = [Step("canUseTool", r) EXCEPT !.toolUseId = toolName]
  /\ Recorded
  /\ UNCHANGED <<host, uiVars, runnerModule, staleId, maxRunners, observe, nRunners, activeLettaSession, cachedAgentId,
                 runnerHandles, backendConvs, nAgents, nMsgs, nCmds>>

\* the stream is exhausted: runner.ts:203-210, then finally
StreamEnd(r) ==
  /\ runners[r].pc = "streaming"
  /\ LET run == runners[r]
         rs1 == IF run.session.status = "running"
                THEN onEvent(RelayState, run,
                             StatusEvent(run.currentSessionId, "completed",
                                         run.currentSessionId, "", r))
                ELSE RelayState
     IN SetRelayState(rs1)
  /\ runners' = [Live EXCEPT ![r].pc = "done"]
  /\ activeLettaSession' = 0
  /\ last' = Step("exhausted", r)
  /\ Recorded
  /\ UNCHANGED <<host, uiVars, runnerModule, staleId, maxRunners, observe, nRunners, cachedAgentId, runnerHandles,
                 backendConvs, nAgents, nTools, nMsgs, nCmds>>

\* A catch block that reports the AbortError like any other exception.
AbortErrorReported(r) ==
  /\ runners[r].pc \in {"sending", "streaming", "waitPerm"}
  /\ runners[r].aborted
  /\ SetRelayState(onEvent(RelayState, runners[r],
                           CatchEvent(runners[r], r, "AbortError")))
  /\ runners' = [Live EXCEPT ![r].pc = "done"]
  /\ activeLettaSession' = 0
  /\ last' = Step("AbortError", r)
  /\ Recorded
  /\ UNCHANGED <<host, uiVars, runnerModule, staleId, maxRunners, observe, nRunners, cachedAgentId,
                 runnerHandles, backendConvs, nAgents, nTools, nMsgs, nCmds>>

\* the aborted backend call throws AbortError: catch returns, then finally
AbortError(r) ==
  /\ runners[r].pc \in {"sending", "streaming", "waitPerm"}
  /\ runners[r].aborted
  /\ runners' = [Live EXCEPT ![r].pc = "done"]
  /\ activeLettaSession' = 0
  /\ last' = Step("AbortError", r)
  /\ sent' = <<>>
  /\ Recorded
  /\ UNCHANGED <<host, uiVars, runnerModule, staleId, maxRunners, observe, nRunners, cachedAgentId, runnerHandles,
                 sessions, permMaps, backendConvs, nAgents, nTools, nMsgs, nCmds>>

\* app.on(hook, ...), globalShortcut.register, process.on(signal, ...): one
\* of the hooks of main.ts:80-89, 109-112 fires
Hook(hook) ==
  /\ host.nHooks < MaxHooks
  /\ hook = "shortcut" => host.shortcut
  /\ LET c == cleanup(host, [handles |-> runnerHandles, runners |-> Live])
     IN /\ host' = [c.host EXCEPT !.nHooks = @ + 1,
                                  !.quitting = @ \/ Quits(hook)]
        /\ runnerHandles' = c.sessions.handles
        /\ runners' = c.sessions.runners
  /\ last' = Cmd(hook, NoId)
  /\ sent' = <<>>
  /\ Recorded
  /\ UNCHANGED <<uiVars, runnerModule, staleId, maxRunners, observe, nRunners,
                 activeLettaSession, cachedAgentId, sessions, permMaps,
                 backendConvs, nAgents, nTools, nMsgs, nCmds>>

\* ------------------------------------------------------------------- Next
Next ==
  \/ \E p \in Prompts : Start(p)
  \/ \E id \in {staleId} \cup DOMAIN sessions, p \in Prompts : Continue(id, p)
  \/ \E id \in CommandIds : Stop(id)
  \/ \E id \in CommandIds : Delete(id)
  \/ \E id \in CommandIds, i \in 1..(nTools + 1) : PermissionResponse(id, ToolUseIds[i])
  \/ \E r \in 1..nRunners : CreateAgentDone(r)
  \/ \E r \in 1..nRunners :
       \E b \in (IF runners[r].kind = "start" THEN BOOLEAN ELSE {TRUE}) : SendOk(r, b)
  \/ \E r \in 1..nRunners : Fail(r)
  \/ \E r \in 1..nRunners, m \in StreamMessages : StreamMsg(r, m)
  \/ \E r \in 1..nRunners, t \in ToolNames : CanUseTool(r, t)
  \/ \E r \in 1..nRunners : StreamEnd(r)
  \/ \E r \in 1..nRunners : AbortError(r)

Spec == Init /\ [][Next]_vars

\* Turns that nobody cancels: no stop, no delete, hence no AbortError.
NextTurn ==
  \/ \E p \in Prompts : Start(p)
  \/ \E id \in {staleId} \cup DOMAIN sessions, p \in Prompts : Continue(id, p)
  \/ \E id \in CommandIds, i \in 1..(nTools + 1) : PermissionResponse(id, ToolUseIds[i])
  \/ \E r \in 1..nRunners : CreateAgentDone(r)
  \/ \E r \in 1..nRunners :
       \E b \in (IF runners[r].kind = "start" THEN BOOLEAN ELSE {TRUE}) : SendOk(r, b)
  \/ \E r \in 1..nRunners : Fail(r)
  \/ \E r \in 1..nRunners, m \in StreamMessages : StreamMsg(r, m)
  \/ \E r \in 1..nRunners, t \in ToolNames : CanUseTool(r, t)
  \/ \E r \in 1..nRunners : StreamEnd(r)

SpecTurn == InitTurn /\ [][NextTurn]_vars

\* Observed turns: the same turns with the history of each invocation kept,
\* up to the point where a tool authorization waits for the user.
NextTrace ==
  \/ \E p \in Prompts : Start(p)
  \/ \E id \in {staleId} \cup DOMAIN sessions, p \in Prompts : Continue(id, p)
  \/ \E r \in 1..nRunners : CreateAgentDone(r)
  \/ \E r \in 1..nRunners :
       \E b \in (IF runners[r].kind = "start" THEN BOOLEAN ELSE {TRUE}) : SendOk(r, b)
  \/ \E r \in 1..nRunners : Fail(r)
  \/ \E r \in 1..nRunners, m \in StreamMessages : StreamMsg(r, m)
  \/ \E r \in 1..nRunners, t \in ToolNames : CanUseTool(r, t)
  \/ \E r \in 1..nRunners : StreamEnd(r)

SpecTrace == InitTrace /\ [][NextTrace]_vars

\* Turns that stop and delete may cancel; no tool asks for authorization.
NextCancel ==
  \/ \E p \in Prompts : Start(p)
  \/ \E id \in {staleId} \cup DOMAIN sessions, p \in Prompts : Continue(id, p)
  \/ \E id \in CommandIds : Stop(id)
  \/ \E id \in CommandIds : Delete(id)
  \/ \E r \in 1..nRunners : CreateAgentDone(r)
  \/ \E r \in 1..nRunners :
       \E b \in (IF runners[r].kind = "start" THEN BOOLEAN ELSE {TRUE}) : SendOk(r, b)
  \/ \E r \in 1..nRunners : Fail(r)
  \/ \E r \in 1..nRunners, m \in StreamMessages : StreamMsg(r, m)
  \/ \E r \in 1..nRunners : StreamEnd(r)
  \/ \E r \in 1..nRunners : AbortError(r)

SpecCancel == InitTurn /\ [][NextCancel]_vars

\* Commands and the backend calls they start, up to the first stream
\* message; every backend call of a started task terminates (it resolves,
\* fails or is aborted) and the task is scheduled again.
NextLive ==
  \/ \E p \in Prompts : Start(p)
  \/ \E id \in {staleId} \cup DOMAIN sessions, p \in Prompts : Continue(id, p)
  \/ \E id \in CommandIds : Stop(id)
  \/ \E id \in CommandIds : Delete(id)
  \/ \E r \in 1..nRunners : CreateAgentDone(r)
  \/ \E r \in 1..nRunners :
       \E b \in (IF runners[r].kind = "start" THEN BOOLEAN ELSE {TRUE}) : SendOk(r, b)
  \/ \E r \in 1..nRunners : Fail(r)
  \/ \E r \in 1..nRunners : StreamEnd(r)
  \/ \E r \in 1..nRunners : AbortError(r)

RunnerStep(r) ==
  \/ CreateAgentDone(r)
  \/ \E b \in (IF runners[r].kind = "start" THEN BOOLEAN ELSE {TRUE}) : SendOk(r, b)
  \/ Fail(r)
  \/ StreamEnd(r)
  \/ AbortError(r)

SpecLive ==
  /\ InitTurn
  /\ [][NextLive]_vars
  /\ \A r \in 1..MaxTurns : WF_vars(RunnerStep(r))

\* Turns during which the application is asked to quit.
NextQuit ==
  \/ \E p \in Prompts : Start(p)
  \/ \E id \in {staleId} \cup DOMAIN sessions, p \in Prompts : Continue(id, p)
  \/ \E r \in 1..nRunners :
       \E b \in (IF runners[r].kind = "start" THEN BOOLEAN ELSE {TRUE}) : SendOk(r, b)
  \/ \E r \in 1..nRunners : StreamEnd(r)
  \/ \E r \in 1..nRunners : AbortError(r)
  \/ \E hook \in QuitHooks : Hook(hook)

SpecQuit == InitTurn /\ [][NextQuit]_vars

\* ============================================================ UI steps
relayVars == <<runnerModule, staleId, runners, nRunners, activeLettaSession,
               cachedAgentId, runnerHandles, sessions, permMaps, sent,
               backendConvs, nAgents, nTools, nMsgs, nCmds, maxRunners,
               observe, history, last, host>>

LogOf(state, id) == Existing(state, id).messages

\* store, view: what a handler left; the render and its effects follow
Commit(s1, v1, touched) ==
  /\ store' = requestHistory(s1)
  /\ view' = Render(store, view, requestHistory(s1), v1, touched)

\* onEvent of App.tsx:78-81: a server event arrives over IPC; max bounds the
\* number of deliveries observed
DeliverUpTo(event, max) ==
  /\ nEvents < max
  /\ LET s1 == handleServerEvent(store, event, nEvents + 1)
         v1 == handlePartialMessages(store, view, event)
         touched == /\ event.type \in {"stream.message", "stream.user_prompt",
                                       "session.history"}
                    /\ event.sessionId = s1.activeSessionId
     IN /\ Commit(s1, v1, touched)
        /\ fragments' =
             LET fr == IF event.type = "stream.message"
                       THEN noteFragment(fragments, LogOf(store, event.sessionId),
                                         event.sessionId, event.message)
                       ELSE fragments
             IN [key \in {k \in DOMAIN fr : k[1] \in DOMAIN s1.sessions} |-> fr[key]]
  /\ nEvents' = nEvents + 1
  /\ nActs' = nActs
  /\ uiLast' = [op |-> "event", event |-> event,
                again |-> uiLast.op = "event" /\ uiLast.event = event,
                found |-> IF event.type = "stream.message"
                          THEN findIndex(LogOf(store, event.sessionId), msgId(event.message))
                          ELSE 0,
                scrollTop |-> view.scrollTop]
  /\ UNCHANGED relayVars

Deliver(event) == DeliverUpTo(event, MaxEvents)

\* App.tsx:101-103 sends session.list; the relay answers (part_001:52-57)
ListSessions == Deliver(ListEvent)

\* the sidebar selects a conversation: setActiveSessionId
SelectSession(id) ==
  /\ nActs < MaxActs
  /\ id # store.activeSessionId
  /\ Commit(setActiveSessionId(store, id), view, FALSE)
  /\ nActs' = nActs + 1
  /\ uiLast' = UiStep("select")
  /\ UNCHANGED <<relayVars, fragments, nEvents>>

\* handleNewSession
NewSession ==
  /\ nActs < MaxActs
  /\ store.activeSessionId # NoId \/ ~store.showStartModal
  /\ Commit([setActiveSessionId(store, NoId) EXCEPT !.showStartModal = TRUE], view, FALSE)
  /\ nActs' = nActs + 1
  /\ uiLast' = UiStep("new")
  /\ UNCHANGED <<relayVars, fragments, nEvents>>

\* the start modal submits: setPendingStart(true)
StartFromModal ==
  /\ nActs < MaxActs
  /\ ~store.pendingStart
  /\ Commit(setPendingStart(store, TRUE), view, FALSE)
  /\ nActs' = nActs + 1
  /\ uiLast' = UiStep("start")
  /\ UNCHANGED <<relayVars, fragments, nEvents>>

\* handlePermissionResult
PermissionResult(toolUseId) ==
  /\ nActs < MaxActs
  /\ store.activeSessionId # NoId
  /\ hasActiveSession(store)
  /\ \E i \in 1..Len(store.sessions[store.activeSessionId].permissionRequests) :
       store.sessions[store.activeSessionId].permissionRequests[i].toolUseId = toolUseId
  /\ Commit(resolvePermissionRequest(store, store.activeSessionId, toolUseId), view, FALSE)
  /\ nActs' = nActs + 1
  /\ uiLast' = UiStep("permission")
  /\ UNCHANGED <<relayVars, fragments, nEvents>>

\* the positions the user scrolls to: the ends and both sides of the threshold
ScrollPositions ==
  LET m == maxScrollTop(store, view)
  IN {p \in {0, m - SCROLL_THRESHOLD - 1, m - SCROLL_THRESHOLD, m} : p >= 0}

\* the user scrolls the container: onScroll={handleScroll}
Scroll(top) ==
  /\ top # view.scrollTop
  /\ Commit(store, handleScroll(store, [view EXCEPT !.scrollTop = top,
                                                   !.scrollPending = FALSE]), FALSE)
  /\ uiLast' = [UiStep("scroll") EXCEPT !.scrollTop = top]
  /\ UNCHANGED <<relayVars, fragments, nEvents, nActs>>

\* the scroll event of a scrollTop that the program or layout moved
ScrollEvent ==
  /\ view.scrollPending
  /\ Commit(store, handleScroll(store, [view EXCEPT !.scrollPending = FALSE]), FALSE)
  /\ uiLast' = [UiStep("scroll") EXCEPT !.scrollTop = view.scrollTop]
  /\ UNCHANGED <<relayVars, fragments, nEvents, nActs>>

\* the IntersectionObserver reports the top sentinel
SentinelIntersects ==
  /\ isIntersecting(view)
  /\ Commit(store, onIntersect(store, view), FALSE)
  /\ uiLast' = [UiStep("intersect") EXCEPT !.scrollTop = view.scrollTop]
  /\ UNCHANGED <<relayVars, fragments, nEvents, nActs>>

\* useMessageWindow has loaded the older page
LoadDone ==
  /\ view.isLoadingHistory
  /\ Commit(store, pageLoaded(view), FALSE)
  /\ uiLast' = [UiStep("loaded") EXCEPT !.scrollTop = view.scrollTop]
  /\ UNCHANGED <<relayVars, fragments, nEvents, nActs>>

\* the "New messages" button: scrollToBottom
ScrollToBottom ==
  /\ view.hasNewMessages /\ ~view.shouldAutoScroll
  /\ LET v1 == resetToLatest([view EXCEPT !.shouldAutoScroll = TRUE,
                                          !.hasNewMessages = FALSE])
     IN Commit(store, scrollTo(v1, maxScrollTop(store, view)), FALSE)
  /\ uiLast' = UiStep("bottom")
  /\ UNCHANGED <<relayVars, fragments, nEvents, nActs>>

\* handleSendMessage: the prompt input, enabled while messages are shown,
\* has sent a message
SendMessage ==
  /\ Len(visibleMessages(store, view)) > 0
  /\ ~view.shouldAutoScroll \/ view.hasNewMessages \/ view.pages # 1
  /\ Commit(store, resetToLatest([view EXCEPT !.shouldAutoScroll = TRUE,
                                              !.hasNewMessages = FALSE]), FALSE)
  /\ uiLast' = UiStep("send")
  /\ UNCHANGED <<relayVars, fragments, nEvents, nActs>>

\* the timeout that content_block_stop set, 500 ms later
ClearPartial ==
  /\ view.clearPending
  /\ Commit(store, [view EXCEPT !.partialMessage = <<>>, !.clearPending = FALSE], FALSE)
  /\ uiLast' = UiStep("clear")
  /\ UNCHANGED <<relayVars, fragments, nEvents, nActs>>

\* ------------------------------------------------- the reducer on its own
InitStore ==
  /\ InitTurn
  /\ runnerModule = "validating"
  /\ staleId = "conv-0"

\* every event for one conversation, a few of each kind for the other
ReducerEvents ==
  {e \in StatusEvents \cup MessageEvents(UiMessages) \cup PromptEvents
          \cup PermissionEvents \cup DeletedEvents :
     \/ e.sessionId = "conv-1"
     \/ e.type = "session.deleted"
     \/ e.title = StartTitle /\ e.status = "running"
     \/ e.message \in {UiMsg("assistant", "m1", NoId, Str(<<"a">>)),
                        UiMsg("result", NoId, NoId, NoContent)}}
  \cup HistoryEvents(store.historyRequested)

NextStore ==
  \/ \E e \in ReducerEvents : Deliver(e)
  \/ ListSessions
  \/ StartFromModal

SpecStore == InitStore /\ [][NextStore]_vars

\* ------------------------------- which conversation is the active one
MaxActiveEvents == 4   \* server events delivered while three conversations live
ActiveIds == {"conv-1", "conv-2", "conv-3"}
\* conversations announced, one that only received a message, deletions and
\* the answer to session.list
ActiveEvents ==
  {[ServerEvent("session.status", id) EXCEPT !.status = "running", !.title = StartTitle] :
     id \in ActiveIds}
  \cup {[ServerEvent("stream.message", "conv-1") EXCEPT
           !.message = UiMsg("assistant", NoId, NoId, Str(<<"a">>))]}
  \cup {ServerEvent("session.deleted", id) : id \in ActiveIds}
  \cup {ListEvent}

NextActive ==
  \/ \E e \in ActiveEvents : DeliverUpTo(e, MaxActiveEvents)
  \/ \E id \in DOMAIN store.sessions : SelectSession(id)
  \/ NewSession
  \/ StartFromModal

SpecActive == InitStore /\ [][NextActive]_vars

\* ---------------------------------------------- one conversation, scrolled
\* what one conversation receives, its history, the status that opens it
\* with an empty log, and text streamed meanwhile by the other conversation
ScrollEvents ==
  {e \in PromptEvents \cup MessageEvents(PartialEvents \cup
           {UiMsg("assistant", NoId, NoId, Str(<<"a">>)),
            UiMsg("assistant", "m1", NoId, Str(<<"a">>))}) : e.sessionId = "conv-1"}
  \cup {e \in StatusEvents :
          e.sessionId = "conv-1" /\ e.status = "running" /\ e.title = StartTitle}
  \cup {e \in MessageEvents({StreamEvent("content_block_delta", Str(<<"a">>))}) :
          e.sessionId = "conv-2"}
  \cup HistoryEvents(store.historyRequested)

NextScroll ==
  \/ \E e \in ScrollEvents : Deliver(e)
  \/ \E id \in DOMAIN store.sessions : SelectSession(id)
  \/ \E top \in ScrollPositions : Scroll(top)
  \/ ScrollEvent
  \/ SentinelIntersects
  \/ LoadDone
  \/ ScrollToBottom
  \/ SendMessage
  \/ ClearPartial

SpecScroll == InitStore /\ [][NextScroll]_vars

\* ------------------------------------------------------ routing of aborts
Cancels == {"session.stop", "session.delete"}

\* C1: with two conversations A and B whose runners are both in flight, a
\* stop or delete addressed to A aborts only the backend session of A's
\* runner, never the session of B's runner.
C1_AbortOnlyAddressed ==
  (/\ last.op \in Cancels
   /\ last.handle # 0 /\ InFlight(last.handle)
   /\ last.aborted # 0 /\ InFlight(last.aborted))
  => last.aborted = last.handle

\* C2: whenever stop finds a handle whose runner's backend call is still in
\* flight, the abort reaches the backend session of that runner.
C2_AbortReachesRunner ==
  (last.op = "session.stop" /\ last.handle # 0 /\ InFlight(last.handle))
  => last.aborted = last.handle

\* C3: abort on a handle whose background task has already finished is a
\* no-op: it aborts no backend session.
C3_AbortAfterFinishNoOp ==
  (last.op \in Cancels /\ last.handle # 0 /\ runners[last.handle].pc = "done")
  => last.aborted = 0

\* ----------------------------------------------------- status of a turn
\* C4: when the stream is exhausted after a terminal result message arrived
\* in that turn, the runner emits no further status; a completed status at
\* exhaustion is emitted only for a turn without a result.
C4_NoCompletedAfterResult ==
  (last.op = "exhausted" /\ runners[last.r].sawResult) => sent = <<>>

\* C5: for every streamed message of type result the runner forwards the
\* message as stream.message and then emits exactly one session.status for
\* the same conversation: completed if success is true, error if false.
C5_ResultThenStatus ==
  (last.op = "stream" /\ last.message.type = "result")
  => /\ Len(sent) = 2
     /\ sent[1].type = "stream.message"
     /\ sent[1].message = last.message
     /\ sent[2].type = "session.status"
     /\ sent[2].sessionId = sent[1].sessionId
     /\ sent[2].status = (IF last.message.success THEN "completed" ELSE "error")

C5_Witness ==
  /\ last.op = "stream"
  /\ last.message = [type |-> "result", success |-> FALSE]
  /\ Len(sent) = 2
  /\ sent[2].status = "error"

\* ------------------------------------------------------------ permissions
\* C6: when a runner is suspended in its tool-authorization call and the
\* request was announced as permission.request{sessionId, toolUseId}, a
\* permission.response with that sessionId and toolUseId resumes the runner.
C6_MatchingResponseResumes ==
  last.op = "permission.response"
  => \A r \in 1..nRunners :
       ~(/\ runners[r].pc = "waitPerm"
         /\ runners[r].waitTool = last.toolUseId
         /\ runners[r].waitSession = last.sessionId)

Rerouted(run) == run.kind = "continue" /\ run.relayId # run.session.id

C9_EventsCarryCorrectedId ==
  (/\ last.op \in {"stream", "canUseTool", "exhausted", "catch"}
   /\ Rerouted(runners[last.r]))
  => \A i \in 1..Len(sent) :
       /\ sent[i].by = last.r
       /\ sent[i].sessionId = runners[last.r].relayId
       /\ sent[i].sessionId # runners[last.r].session.id

C9_Witness ==
  /\ last.op = "catch"
  /\ Rerouted(runners[last.r])
  /\ runnerModule = "createAgent"
  /\ Len(sent) = 1
  /\ sent[1].status = "error"

\* C10: for every resume identifier that does not match the accepted
\* id-shape the runner never calls resume-by-id with that identifier: it
\* resumes on the cached agent if one is cached and creates afresh otherwise.
C10_IllShapedNeverResumed ==
  (last.op = "session.continue" /\ ~isValidLettaId(last.sessionId))
  => LET acq == runners[last.r].acq
     IN /\ ~(acq.fn = "resumeSession" /\ acq.arg = last.sessionId)
        /\ IF cachedAgentId # NoId
           THEN acq = [fn |-> "resumeSession", arg |-> cachedAgentId]
           ELSE acq = [fn |-> "createSession", arg |-> NoId]

\* ------------------------------------------------------- order of a turn
IsStatus(e, status) == e.type = "session.status" /\ e.status = status
IsMessage(e) == e.type = "stream.message"

\* the turn succeeded: the stream yielded a result with success = true and
\* none with success = false
Succeeded(yielded) ==
  /\ \E i \in 1..Len(yielded) : yielded[i] = [type |-> "result", success |-> TRUE]
  /\ \A i \in 1..Len(yielded) : yielded[i] # [type |-> "result", success |-> FALSE]

StartSucceeded ==
  /\ last.op = "exhausted"
  /\ runners[last.r].kind = "start"
  /\ runners[last.r].conversationId # NoId
  /\ Succeeded(history[last.r].yielded)

\* C11: for a start whose backend turn succeeds, the events broadcast for
\* the new conversation are, in order: one session.status running whose
\* title is the new id, one stream.user_prompt with the prompt, then one or
\* more stream.message (each result followed by its completed status), and
\* the last event is session.status completed; no stream.message precedes
\* the running status.
C11_StartEventOrder ==
  StartSucceeded
  => LET H == history[last.r].events
         run == runners[last.r]
         id == run.conversationId
     IN /\ Len(H) >= 4
        /\ \A i \in 1..Len(H) : H[i].sessionId = id /\ H[i].by = last.r
        /\ IsStatus(H[1], "running") /\ H[1].title = id
        /\ H[2].type = "stream.user_prompt" /\ H[2].prompt = run.prompt
        /\ IsMessage(H[3])
        /\ \A i \in 3..Len(H) : IsMessage(H[i]) \/ IsStatus(H[i], "completed")
        /\ IsStatus(H[Len(H)], "completed")
        /\ Len(SelectSeq(H, IsMessage)) = Len(history[last.r].yielded)

C11_Witness ==
  /\ StartSucceeded
  /\ Len(history[last.r].events) = 5
  /\ history[last.r].events[1].sessionId = "conv-1"

\* ---------------------------------------------------------- stop and delete
HandleOf(id) == IF id \in DOMAIN runnerHandles THEN runnerHandles[id] ELSE 0

\* C12: for any stop(id), with or without a handle for id: exactly one
\* session.status idle is broadcast for id, the runtime status of id (if the
\* relay holds a runtime session for it) becomes idle, the registry holds no
\* handle for id afterwards, and a handle that existed had abort invoked.
C12_StopAlwaysIdle ==
  [][ (last'.op = "session.stop" /\ nCmds' = nCmds + 1)
      => LET id == last'.sessionId
         IN /\ Len(sent') = 1
            /\ IsStatus(sent'[1], "idle") /\ sent'[1].sessionId = id
            /\ id \notin DOMAIN runnerHandles'
            /\ id \in DOMAIN sessions
                 => id \in DOMAIN sessions' /\ sessions'[id].status = "idle"
            /\ DOMAIN sessions' = DOMAIN sessions
            /\ last'.handle = HandleOf(id)
            /\ (HandleOf(id) # 0 /\ activeLettaSession # 0)
                 => runners'[activeLettaSession].aborted ]_vars

C12_Witness ==
  /\ last.op = "session.stop"
  /\ last.handle # 0
  /\ runners[last.handle].aborted
  /\ sessions[last.sessionId].status = "idle"

\* C13: for any delete(id), with or without a handle or a runtime session:
\* a handle registered for id has abort invoked and is removed from the
\* registry, the conversation is removed from the runtime state, and exactly
\* one session.deleted for id is broadcast.
C13_DeleteRemoves ==
  [][ (last'.op = "session.delete" /\ nCmds' = nCmds + 1)
      => LET id == last'.sessionId
         IN /\ Len(sent') = 1
            /\ sent'[1].type = "session.deleted" /\ sent'[1].sessionId = id
            /\ id \notin DOMAIN runnerHandles'
            /\ DOMAIN runnerHandles' = DOMAIN runnerHandles \ {id}
            /\ id \notin DOMAIN sessions'
            /\ DOMAIN sessions' = DOMAIN sessions \ {id}
            /\ last'.handle = HandleOf(id)
            /\ (HandleOf(id) # 0 /\ activeLettaSession # 0)
                 => runners'[activeLettaSession].aborted ]_vars

C13_Witness ==
  /\ last.op = "session.delete"
  /\ last.handle # 0
  /\ runners[last.handle].aborted
  /\ last.sessionId \notin DOMAIN sessions

\* ------------------------------------------------------ registry and status
\* the runner has broadcast neither a completed nor an error status yet
NotSignaled(r) == InFlight(r) /\ ~runners[r].sawResult

\* C14: in every reachable state, a conversation whose handle is in the
\* registry and whose runner has not yet signaled completion or error has
\* runtime status running.
C14_RegisteredIsRunning ==
  \A id \in DOMAIN runnerHandles :
    NotSignaled(runnerHandles[id])
    => id \in DOMAIN sessions /\ sessions[id].status = "running"

\* C15: after a runner has emitted its final completed or error status
\* (its task completed or failed), the registry holds no handle of it.
C15_HandleRemovedAtEnd ==
  last.op \in {"exhausted", "catch"}
  => \A id \in DOMAIN runnerHandles : runnerHandles[id] # last.r

\* C16: across start commands, also overlapping ones, a new agent is
\* created at most once; later starts reuse the cached agent identifier.
C16_AgentCreatedOnce ==
  (\A r \in 1..nRunners : runners[r].kind = "start") => nAgents <= 1

\* ------------------------------------------------------------- exceptions
\* C17: when a runner is cancelled through its abort capability, the abort
\* exception is suppressed: the step that handles it broadcasts nothing (no
\* error status, no runner.error), changes no runtime status and ends the
\* background task.
C17_AbortSuppressed ==
  [][ last'.op = "AbortError"
      => /\ sent' = <<>>
         /\ sessions' = sessions
         /\ runners'[last'.r].pc = "done" ]_vars

C17_Witness ==
  /\ last.op = "AbortError"
  /\ runners[last.r].aborted
  /\ runners[last.r].pc = "done"
  /\ \E id \in DOMAIN sessions : sessions[id].status = "idle"

\* C18: any exception other than cancellation raised while acquiring the
\* session, sending the prompt or streaming results in exactly one
\* session.status error with the stringified error for that conversation
\* and sets that conversation's runtime status to error.
C18_ErrorStatusForConversation ==
  last.op = "catch"
  => /\ Len(sent) = 1
     /\ IsStatus(sent[1], "error")
     /\ sent[1].error # ""
     /\ sent[1].sessionId \in DOMAIN sessions
     /\ sessions[sent[1].sessionId].status = "error"

\* ------------------------------------------------------ forwarded messages
Forwarded(r) == SelectSeq(history[r].events, IsMessage)

Commands == {"session.start", "session.continue", "session.stop", "session.delete"}

\* C20: every state-changing command (start, continue, stop, delete) is
\* eventually followed by at least one broadcast event, provided every
\* backend call terminates and the background tasks are scheduled fairly.
C20_CommandLeadsToBroadcast ==
  (last.op \in Commands) ~> (sent # <<>>)

C20_Witness ==
  /\ last.op = "exhausted"
  /\ runners[last.r].kind = "start"
  /\ runners[last.r].conversationId = NoId
  /\ sent # <<>>

\* ------------------------------------------------- lifetime of a permission
\* C27: a pending permission lasts from the request until the UI supplies a
\* decision or the conversation is deleted.  Once the UI has answered the
\* request it was shown (the announced conversation id and toolUseId of a
\* suspended runner), no pendingPermissions map holds that toolUseId any more;
\* once a conversation is deleted, it has no runtime session in which a later
\* permission.response could find an entry.
C27_PendingUntilDecided ==
  [][ /\ (/\ last'.op = "permission.response"
          /\ \E r \in 1..nRunners :
               /\ runners[r].pc = "waitPerm"
               /\ runners[r].waitTool = last'.toolUseId
               /\ runners[r].waitSession = last'.sessionId)
         => \A m \in DOMAIN permMaps' : last'.toolUseId \notin permMaps'[m]
      /\ last'.op = "session.delete"
         => last'.sessionId \notin DOMAIN sessions' ]_vars

\* ------------------------------------------------------ placeholder id
\* C30: no broadcast event carries the placeholder "pending" as its
\* sessionId.
C30_NoPendingSessionId ==
  \A i \in 1..Len(sent) : sent[i].sessionId # PendingId

\* ------------------------------------------------------ the message log
\* the entries of a log that an identifier matches
Matches(log, id) ==
  {i \in 1..Len(log) : id # NoId /\ (log[i].uuid = id \/ log[i].id = id)}
\* the last step delivered a stream.message
MessageDelivered(step) == step.op = "event" /\ step.event.type = "stream.message"
Logs(state) == [id \in DOMAIN state.sessions |-> state.sessions[id].messages]

\* C21: for the streaming fragments (assistant or reasoning) delivered to one
\* conversation under one stable identifier, possibly interleaved with other
\* messages, the log holds exactly one entry for that identifier, at the
\* index where the first fragment was appended, and its content is the
\* concatenation of the fragments' contents in delivery order.
C21_FragmentsConcatenated ==
  \A key \in DOMAIN fragments :
    fragments[key].pure
    => LET log == store.sessions[key[1]].messages
       IN /\ Matches(log, key[2]) = {fragments[key].first}
          /\ OrEmpty(log[fragments[key].first].content) = fragments[key].text

C21_Witness ==
  \E key \in DOMAIN fragments :
    /\ fragments[key].pure
    /\ fragments[key].text \in {<<"a", "b">>, <<"b", "a">>}
    /\ Len(store.sessions[key[1]].messages) >= 2

\* C22: a stream.message of a non-streaming kind whose identifier equals that
\* of an entry already in the log leaves the length of the log unchanged,
\* replaces the matching entry at its index and leaves every other entry at
\* its index with its content.
C22_ReplacedInPlace ==
  [][ LET e == uiLast'.event
          log == LogOf(store, e.sessionId)
          after == LogOf(store', e.sessionId)
          M == Matches(log, msgId(e.message))
      IN (/\ MessageDelivered(uiLast') /\ nEvents' = nEvents + 1
          /\ e.message.type \notin StreamingTypes
          /\ M # {})
         => /\ Len(after) = Len(log)
            /\ \E i \in M :
                 /\ after[i] = e.message
                 /\ \A j \in 1..Len(log) : j # i => after[j] = log[j] ]_vars

C22_Witness ==
  /\ MessageDelivered(uiLast)
  /\ uiLast.event.message.type \notin StreamingTypes
  /\ uiLast.found > 0
  /\ Len(LogOf(store, uiLast.event.sessionId)) >= 2
  /\ LogOf(store, uiLast.event.sessionId)[uiLast.found] = uiLast.event.message

\* C23: delivering the same terminal session.status event (completed or
\* error) twice yields the same views as delivering it once, compared on
\* status, title, cwd, message log and outstanding permission requests.
Compared(state) ==
  [id \in DOMAIN state.sessions |->
     [status |-> state.sessions[id].status, title |-> state.sessions[id].title,
      cwd |-> state.sessions[id].cwd, messages |-> state.sessions[id].messages,
      permissionRequests |-> state.sessions[id].permissionRequests]]

C23_StatusIdempotent ==
  \A e \in StatusEvents :
    e.status \in TerminalStatuses
    => LET once == handleServerEvent(store, e, nEvents + 1)
           twice == handleServerEvent(once, e, nEvents + 2)
       IN Compared(twice) = Compared(once)

C23_Witness ==
  /\ uiLast.op = "event" /\ uiLast.again
  /\ uiLast.event.type = "session.status"
  /\ uiLast.event.status \in TerminalStatuses
  /\ store.sessions[uiLast.event.sessionId].messages # <<>>

\* C24: delivering the same terminal result message twice as stream.message
\* leaves the message logs as they are after delivering it once.
ResultMessages ==
  {UiMsg("result", "m1", NoId, NoContent), UiMsg("result", NoId, "m1", NoContent),
   UiMsg("result", NoId, NoId, NoContent)}

C24_ResultIdempotent ==
  \A e \in MessageEvents(ResultMessages) :
    LET once == handleServerEvent(store, e, nEvents + 1)
        twice == handleServerEvent(once, e, nEvents + 2)
    IN Logs(twice) = Logs(once)

\* C24, with its condition: a terminal result message that carries a stable
\* identifier (uuid or id) may be delivered twice, and the message logs are
\* as after delivering it once.
C24_IdentifiedResultIdempotent ==
  \A e \in MessageEvents(ResultMessages) :
    msgId(e.message) # NoId
    => LET once == handleServerEvent(store, e, nEvents + 1)
           twice == handleServerEvent(once, e, nEvents + 2)
       IN Logs(twice) = Logs(once)

C24_Witness ==
  /\ MessageDelivered(uiLast) /\ uiLast.again
  /\ uiLast.event.message.type = "result"
  /\ msgId(uiLast.event.message) # NoId
  /\ Len(LogOf(store, uiLast.event.sessionId)) >= 2

\* C25: a stream.message without an identifier, or with one that matches no
\* entry of the log, becomes the last entry: the log is one longer and the
\* earlier entries keep index and content.  No stream.message removes or
\* reorders entries: the log never gets shorter, and an entry the message
\* does not match stays where and what it was.
C25_AppendedLast ==
  [][ LET e == uiLast'.event
          log == LogOf(store, e.sessionId)
          after == LogOf(store', e.sessionId)
          M == Matches(log, msgId(e.message))
      IN (MessageDelivered(uiLast') /\ nEvents' = nEvents + 1)
         => /\ M = {} => after = Append(log, e.message)
            /\ Len(after) >= Len(log)
            /\ \A i \in 1..Len(log) : i \notin M => after[i] = log[i]
            /\ \A i \in M : i \in Matches(after, msgId(e.message)) ]_vars

C25_Witness ==
  /\ MessageDelivered(uiLast)
  /\ msgId(uiLast.event.message) # NoId
  /\ uiLast.found = 0
  /\ Len(LogOf(store, uiLast.event.sessionId)) = 3
  /\ LogOf(store, uiLast.event.sessionId)[3] = uiLast.event.message

\* C26: a conversation view, once created, is destroyed only by a
\* session.deleted event for its id; no other event, session.list included,
\* removes a view or its message log.
C26_OnlyDeleteDestroys ==
  [][ \A id \in DOMAIN store.sessions :
        \/ /\ id \in DOMAIN store'.sessions
           /\ Len(store'.sessions[id].messages) >= Len(store.sessions[id].messages)
        \/ /\ uiLast'.op = "event"
           /\ uiLast'.event.type = "session.deleted"
           /\ uiLast'.event.sessionId = id ]_vars

\* ------------------------------------------------------------- scrolling
\* C28: after every scroll event auto-scroll is enabled exactly when
\* scrollTop + clientHeight >= scrollHeight - 50, and a scroll that reaches
\* the bottom clears the new-messages indicator; while auto-scroll is
\* disabled, a new message of the active conversation sets the indicator and
\* leaves scrollTop where it was.
C28_AutoScrollFollowsBottom ==
  [][ /\ uiLast'.op = "scroll"
         => LET atBottom == uiLast'.scrollTop + ClientHeight
                              >= scrollHeight(store, view) - 50
            IN /\ view'.shouldAutoScroll = atBottom
               /\ atBottom => ~view'.hasNewMessages
      /\ (/\ uiLast'.op = "event" /\ nEvents' = nEvents + 1
          /\ ~view.shouldAutoScroll
          /\ Len(messagesOf(store')) > Len(messagesOf(store)))
         => /\ view'.hasNewMessages
            /\ ~view'.shouldAutoScroll
            /\ view'.scrollTop = Clamp(store', view', view.scrollTop) ]_vars

C28_Witness ==
  /\ uiLast.op = "event"
  /\ uiLast.event.type = "stream.message"
  /\ view.prevMessagesLength > 1
  /\ view.hasNewMessages
  /\ ~view.shouldAutoScroll
  /\ view.scrollTop = uiLast.scrollTop

\* C29: the top sentinel starts a load only while more history exists and no
\* load is in progress, and records the scroll height before the load; when
\* the load has finished, scrollTop is increased by exactly the new scroll
\* height minus the recorded one, once: the restore flag is cleared by the
\* end of the load and by nothing else.
\* C28, in a log that is not empty: as above, the new message being added
\* to a log of the active conversation that already held a message; the
\* browser moves scrollTop only to keep it within the content.
C28_IndicatorInNonEmptyLog ==
  [][ /\ uiLast'.op = "scroll"
         => LET atBottom == uiLast'.scrollTop + ClientHeight
                              >= scrollHeight(store, view) - 50
            IN /\ view'.shouldAutoScroll = atBottom
               /\ atBottom => ~view'.hasNewMessages
      /\ (/\ uiLast'.op = "event" /\ nEvents' = nEvents + 1
          /\ ~view.shouldAutoScroll
          /\ Len(messagesOf(store)) > 0
          /\ Len(messagesOf(store')) > Len(messagesOf(store)))
         => /\ view'.hasNewMessages
            /\ ~view'.shouldAutoScroll
            /\ view'.scrollTop = Clamp(store', view', view.scrollTop) ]_vars

C29_ScrollRestoredOnce ==
  [][ /\ (~view.isLoadingHistory /\ view'.isLoadingHistory)
         => /\ uiLast'.op = "intersect"
            /\ hasMoreHistory(store, view)
            /\ view'.scrollHeightBeforeLoad = scrollHeight(store, view)
            /\ view'.shouldRestoreScroll
      /\ uiLast'.op = "loaded"
         => /\ view'.scrollTop =
                 view.scrollTop
                 + (scrollHeight(store', view') - view.scrollHeightBeforeLoad)
            /\ ~view'.shouldRestoreScroll
      /\ (view.shouldRestoreScroll /\ ~view'.shouldRestoreScroll)
         => uiLast'.op = "loaded"
      /\ (uiLast'.op = "intersect" /\ view.isLoadingHistory)
         => view' = view ]_vars

C29_Witness ==
  /\ uiLast.op = "loaded"
  /\ view.pages = 2
  /\ view.scrollTop > uiLast.scrollTop
  /\ ~view.shouldRestoreScroll

\* ------------------------------------------------- the active conversation
\* C36: while pendingStart is true, a terminal session.status of a
\* conversation the store already holds (hence not the one the pending start
\* creates) neither becomes the active conversation nor clears pendingStart.
C36_PendingStartNotTaken ==
  [][ (/\ uiLast'.op = "event" /\ nEvents' = nEvents + 1
       /\ uiLast'.event.type = "session.status"
       /\ uiLast'.event.status \in TerminalStatuses
       /\ uiLast'.event.sessionId \in DOMAIN store.sessions
       /\ store.pendingStart)
      => /\ store'.pendingStart
         /\ store'.activeSessionId = store.activeSessionId ]_vars

\* C37: activeSessionId is null or names a conversation of the store; when
\* session.deleted removes the active conversation, the active id becomes a
\* remaining conversation whose updatedAt is the greatest, or null when none
\* remains.
C37_ActiveIsPresent ==
  [][ /\ store'.activeSessionId = NoId \/ store'.activeSessionId \in DOMAIN store'.sessions
      /\ (/\ uiLast'.op = "event" /\ nEvents' = nEvents + 1
          /\ uiLast'.event.type = "session.deleted"
          /\ store.activeSessionId # NoId
          /\ uiLast'.event.sessionId = store.activeSessionId)
         => LET remaining == DOMAIN store.sessions \ {store.activeSessionId}
            IN IF remaining = {} THEN store'.activeSessionId = NoId
               ELSE /\ store'.activeSessionId \in remaining
                    /\ \A id \in remaining :
                         store.sessions[id].updatedAt
                           <= store.sessions[store'.activeSessionId].updatedAt ]_vars

C37_Witness ==
  /\ uiLast.op = "event"
  /\ uiLast.event.type = "session.deleted"
  /\ uiLast.event.sessionId \notin DOMAIN store.sessions
  /\ Len(store.order) = 2
  /\ store.activeSessionId = store.order[2]
  /\ store.sessions[store.order[1]].updatedAt < store.sessions[store.order[2]].updatedAt

\* C38: a stream.message, stream.user_prompt, session.status or
\* permission.request for conversation A leaves every other conversation in
\* the store, with its message log, status, title and outstanding permission
\* requests unchanged.
C38_OtherViewsUnchanged ==
  [][ (/\ uiLast'.op = "event" /\ nEvents' = nEvents + 1
       /\ uiLast'.event.type \in {"stream.message", "stream.user_prompt",
                                  "session.status", "permission.request"})
      => \A id \in DOMAIN store.sessions \ {uiLast'.event.sessionId} :
           /\ id \in DOMAIN store'.sessions
           /\ Compared(store')[id] = Compared(store)[id] ]_vars

C38_Witness ==
  /\ uiLast.op = "event"
  /\ uiLast.event.type = "session.status"
  /\ \E id \in DOMAIN store.sessions \ {uiLast.event.sessionId} :
       /\ store.sessions[id].messages # <<>>
       /\ store.sessions[id].status = "running"

\* ---------------------------------------------------------------- quitting
\* C39, read as lasting: none of the cleanup actions runs more than once, and
\* from the cleanup on the handle registry is empty.
C39_EmptyAfterCleanup ==
  /\ host.unregisterAll <= 1 /\ host.stopPolling <= 1
  /\ host.cleanupAllSessions <= 1 /\ host.killViteDevServer <= 1
  /\ host.cleanupComplete => runnerHandles = EmptyMap

\* C39: however many hooks fire and in whatever order, each cleanup action
\* runs at most once, all of them in the first hook that fires; that step
\* aborts through every registered handle and leaves the registry empty, and
\* later hooks change neither the registry nor any runner.
C39_CleanupOnce ==
  [][ /\ host'.unregisterAll <= 1 /\ host'.stopPolling <= 1
      /\ host'.cleanupAllSessions <= 1 /\ host'.killViteDevServer <= 1
      /\ host'.nHooks = host.nHooks + 1
         => IF host.cleanupComplete
            THEN /\ runnerHandles' = runnerHandles
                 /\ runners' = Live
                 /\ host'.cleanupAllSessions = host.cleanupAllSessions
            ELSE /\ runnerHandles' = EmptyMap
                 /\ host'.cleanupComplete
                 /\ host'.unregisterAll = 1 /\ host'.stopPolling = 1
                 /\ host'.cleanupAllSessions = 1 /\ host'.killViteDevServer = 1
                 /\ (DOMAIN runnerHandles # {} /\ activeLettaSession # 0)
                    => runners'[activeLettaSession].aborted ]_vars

C39_Witness ==
  /\ host.nHooks = 2
  /\ host.cleanupAllSessions = 1
  /\ runnerHandles = EmptyMap
  /\ \E r \in 1..nRunners : runners[r].aborted

\* ------------------------------------------------- the relay seen by the UI
\* webContents.send("server-event", JSON.stringify(event)) of part_001:33-40
\* and JSON.parse in the window: absent optional fields stay absent
toServerEvent(e) ==
  [ServerEvent(e.type, e.sessionId) EXCEPT
     !.status = e.status,
     !.title = IF e.title = "" THEN undefined ELSE e.title,
     !.message = UiMsg(e.message.type, NoId, NoId, NoContent),
     !.prompt = e.prompt, !.toolUseId = e.toolUseId, !.toolName = e.toolName,
     !.error = e.error]

\* the store after the reducer has taken the events of one relay step in order
RECURSIVE FoldEvents(_, _)
FoldEvents(state, events) ==
  IF events = <<>> THEN state
  ELSE FoldEvents(handleServerEvent(state, toServerEvent(Head(events)), 1),
                  Tail(events))

\* a store that shows conversation id with the given status
StoreWith(id, status) ==
  PutSession(InitialStore, id, [createSession(id) EXCEPT !.status = status])

\* C31: once stop(id) has made the conversation idle (the runtime status is
\* idle only after a stop), no step other than a continue for id changes the
\* status of id, neither in the runtime state nor in a store that shows id
\* as idle and takes the events the step broadcasts.
C31_StoppedStaysIdle ==
  [][ \A id \in DOMAIN sessions :
        ( /\ sessions[id].status = "idle"
          /\ ~(last'.op = "session.continue" /\ last'.sessionId = id) )
        => /\ id \in DOMAIN sessions' => sessions'[id].status = "idle"
           /\ LET after == FoldEvents(StoreWith(id, "idle"), sent')
              IN id \in DOMAIN after.sessions => after.sessions[id].status = "idle"
    ]_vars

\* C32: a runner in flight for a conversation without a runtime session is
\* the runner of a deleted conversation (a runtime session exists from the
\* launch or the announcement on); until a start or continue names the id
\* again, its steps broadcast no event for the id, and a store without the id
\* that takes the events of a step does not show the id afterwards.
C32_DeletedStaysSilent ==
  [][ \A r \in 1..nRunners :
        LET id == runners[r].relayId
        IN ( /\ InFlight(r) /\ id # NoId /\ id \notin DOMAIN sessions
             /\ ~(last'.op = "session.continue" /\ last'.sessionId = id)
             /\ ~(last'.op = "send" /\ runners'[last'.r].relayId = id) )
           => /\ \A i \in DOMAIN sent' :
                   ~(sent'[i].by = r /\ sent'[i].sessionId = id)
              /\ id \notin DOMAIN FoldEvents(InitialStore, sent').sessions
    ]_vars

\* ------------------------------------------------------ the handle registry
\* C33: from the step that announces a start's conversation id on, the
\* registry holds the start's runner under that id for as long as the runner
\* is in flight and no stop or delete names the id.
C33_StartHandleHeld ==
  [][ \A r \in 1..nRunners :
        LET id == runners'[r].relayId
        IN ( /\ runners'[r].kind = "start"
             /\ runners'[r].pc \in {"creatingAgent", "sending", "streaming", "waitPerm"}
             /\ id # NoId
             /\ runners[r].relayId = NoId \/ HandleOf(id) = r
             /\ ~(last'.op \in Cancels /\ last'.sessionId = id) )
           => /\ id \in DOMAIN runnerHandles'
              /\ runnerHandles'[id] = r
    ]_vars

\* C34: while a continue that was re-routed to a corrected conversation id is
\* in flight, the registry holds its runner under the corrected id and holds
\* nothing under the old id.
C34_HandleFollowsReroute ==
  \A r \in 1..nRunners :
    (InFlight(r) /\ Rerouted(runners[r]))
    => /\ HandleOf(runners[r].relayId) = r
       /\ runners[r].session.id \notin DOMAIN runnerHandles

\* C35: no two runners are in flight for one conversation identifier, and
\* every runner in flight for a conversation, unless a stop or delete has
\* asked it to abort, has its handle in the registry.
C35_OneRegisteredRunnerPerId ==
  /\ \A r1, r2 \in 1..nRunners :
       (r1 # r2 /\ InFlight(r1) /\ InFlight(r2) /\ runners[r1].relayId # NoId)
       => runners[r1].relayId # runners[r2].relayId
  /\ \A r \in 1..nRunners :
       (InFlight(r) /\ runners[r].relayId # NoId /\ ~runners[r].aborted)
       => \E id \in DOMAIN runnerHandles : runnerHandles[id] = r

====
